---- MODULE Spec2Model ----
(***************************************************************************)
(* Chain-manager state machine of the node (node/src/actors/chain_manager/ *)
(* handlers.rs): peer-beacon consensus, the PeersBeacons / EpochNotifica-  *)
(* tion / AddBlocks / AddCandidates handlers and the Synced-gated RPCs.    *)
(***************************************************************************)
EXTENDS Integers, Sequences, FiniteSets, TLC

\* ------------------------------------------------------------------------
\* Bounds
\* ------------------------------------------------------------------------
\* longest peers snapshot fed to the consensus functions
MaxPeers == 5
\* longest peers snapshot delivered to the PeersBeacons handler
MaxSessions == 1
\* last epoch the clock notifies
MaxEpoch == 2
\* longest batch of blocks a peer sends, and the last epoch with a block
MaxBatch == 2
MaxBlockEpoch == 1

\* ------------------------------------------------------------------------
\* Option<T>: None is the empty sequence, Some(x) the one-element sequence
\* ------------------------------------------------------------------------
None == <<>>
Some(x) == <<x>>
IsSome(o) == Len(o) = 1
IsNone(o) == Len(o) = 0
Unwrap(o) == o[1]

\* ------------------------------------------------------------------------
\* Data
\* ------------------------------------------------------------------------
CheckpointBeacon(c, h) == [checkpoint |-> c, hash_prev_block |-> h]
LastBeacon(b, s) == [highest_block_checkpoint |-> b, highest_superblock_checkpoint |-> s]
SyncTarget(b, s) == [block |-> b, superblock |-> s]

\* consensus_constants.bootstrap_hash and .genesis_hash
BootstrapHash == 0
GenesisHash == 10

\* Range of a sequence, and the subsequence of the elements satisfying a test
Range(s) == {s[i] : i \in DOMAIN s}
Count(v, s) == Cardinality({i \in DOMAIN s : s[i] = v})

\* ------------------------------------------------------------------------
\* utils::mode_consensus: the single most frequent item of the iterator,
\* provided it is reported by at least threshold percent of the items;
\* None on a tie for the top, below the threshold, or on an empty iterator.
\* ------------------------------------------------------------------------
mode_consensus(votes, threshold) ==
    IF votes = <<>> THEN None
    ELSE LET vals == Range(votes)
             top == CHOOSE v \in vals : \A w \in vals : Count(v, votes) >= Count(w, votes)
             tie == \E w \in vals : w # top /\ Count(w, votes) = Count(top, votes)
         IN IF tie THEN None
            ELSE IF (Count(top, votes) * 100) \div Len(votes) >= threshold
                 THEN Some(top)
                 ELSE None

\* Option::and_then(|x| x) on an Option<Option<T>>
Flatten(o) == IF IsSome(o) THEN Unwrap(o) ELSE None

\* ------------------------------------------------------------------------
\* impl PeersBeacons.  A PeersBeacons message is [pb, outbound_limit], pb a
\* sequence of [peer, beacon] with beacon an Option<LastBeacon>.
\* ------------------------------------------------------------------------
\* mutant: the missing outbound peers are not counted
num_missing_peers_ignored(msg) == 0

num_missing_peers(msg) ==
    IF IsSome(msg.outbound_limit)
    THEN Unwrap(msg.outbound_limit) - Len(msg.pb)
    ELSE 0

Repeat(x, k) == [i \in 1..k |-> x]

BlockVotes(msg) ==
    [i \in 1..Len(msg.pb) |->
        IF IsSome(msg.pb[i].beacon)
        THEN Some(Unwrap(msg.pb[i].beacon).highest_block_checkpoint)
        ELSE None]

SuperblockVotes(msg) ==
    [i \in 1..Len(msg.pb) |->
        IF IsSome(msg.pb[i].beacon)
        THEN Some(Unwrap(msg.pb[i].beacon).highest_superblock_checkpoint)
        ELSE None]

\* mutant: the votes are not padded with the missing peers
block_consensus_unpadded(msg, consensus_threshold) ==
    Flatten(mode_consensus(BlockVotes(msg), consensus_threshold))

block_consensus(msg, consensus_threshold) ==
    Flatten(mode_consensus(BlockVotes(msg) \o Repeat(None, num_missing_peers(msg)),
                           consensus_threshold))

\* the peers of a sequence of pb entries, in order
PeersOf(entries) == [i \in 1..Len(entries) |-> entries[i].peer]

\* the block beacons of the peers whose superblock vote is the winner
matching_block_beacons(msg, superblock_consensus_beacon) ==
    LET matching == SelectSeq(msg.pb, LAMBDA e :
                        IF IsSome(e.beacon)
                        THEN Unwrap(e.beacon).highest_superblock_checkpoint
                                 = superblock_consensus_beacon
                        ELSE FALSE)
    IN [i \in 1..Len(matching) |-> Unwrap(matching[i].beacon).highest_block_checkpoint]

\* mutant: the tie is broken by a pick that varies with the number of votes
case3_varying_block(block_beacons) == block_beacons[1 + (Len(block_beacons) % 2)]

\* mutant: the tie is broken by the last of the matching peers
case3_last_block(block_beacons) == block_beacons[Len(block_beacons)]

\* Case 3 (a tie): block_beacons[0]
case3_any_block(block_beacons) == block_beacons[1]

\* mutant: Case 2 is skipped, a mode below the threshold falls to Case 3
conditional_block_consensus_no_case2(block_beacons, consensus_threshold) ==
    LET block_consensus_mode == mode_consensus(block_beacons, consensus_threshold)
    IN IF IsSome(block_consensus_mode)
       THEN <<Unwrap(block_consensus_mode), TRUE>>
       ELSE <<block_beacons[1], FALSE>>

\* (block_consensus, is_there_block_consensus) among the matching peers
conditional_block_consensus(block_beacons, consensus_threshold) ==
    LET block_consensus_mode == mode_consensus(block_beacons, consensus_threshold)
        plain_mode == mode_consensus(block_beacons, 0)
    IN IF IsSome(block_consensus_mode)
       THEN <<Unwrap(block_consensus_mode), TRUE>>
       ELSE <<IF IsSome(plain_mode) THEN Unwrap(plain_mode)
              ELSE case3_any_block(block_beacons),
              FALSE>>

superblock_consensus(msg, consensus_threshold) ==
    LET sb_mode == Flatten(mode_consensus(
                       SuperblockVotes(msg) \o Repeat(None, num_missing_peers(msg)),
                       consensus_threshold))
    IN IF IsNone(sb_mode) THEN None
       ELSE LET superblock_consensus_beacon == Unwrap(sb_mode)
                cond == conditional_block_consensus(
                            matching_block_beacons(msg, superblock_consensus_beacon),
                            consensus_threshold)
            IN Some(<<LastBeacon(cond[1], superblock_consensus_beacon), cond[2]>>)

\* mutant: a peer without beacon is kept (unwrap_or(false))
decide_peers_to_unregister_keep_silent(msg, beacon) ==
    PeersOf(SelectSeq(msg.pb, LAMBDA e :
        IF IsSome(e.beacon)
        THEN Unwrap(e.beacon).highest_block_checkpoint # beacon
        ELSE FALSE))

decide_peers_to_unregister(msg, beacon) ==
    PeersOf(SelectSeq(msg.pb, LAMBDA e :
        IF IsSome(e.beacon)
        THEN Unwrap(e.beacon).highest_block_checkpoint # beacon
        ELSE TRUE))

decide_peers_to_unregister_s(msg, superbeacon) ==
    PeersOf(SelectSeq(msg.pb, LAMBDA e :
        IF IsSome(e.beacon)
        THEN Unwrap(e.beacon).highest_superblock_checkpoint # superbeacon
        ELSE TRUE))

peers_with_no_beacon(msg) ==
    PeersOf(SelectSeq(msg.pb, LAMBDA e : IsNone(e.beacon)))

\* ------------------------------------------------------------------------
\* Values the peers report
\* ------------------------------------------------------------------------
\* two tips of the same epoch (a fork), a later tip, and the empty chain
BeaconA == CheckpointBeacon(1, 11)
BeaconB == CheckpointBeacon(1, 21)
BeaconC == CheckpointBeacon(2, 12)
BeaconBoot == CheckpointBeacon(0, BootstrapHash)
SuperA == CheckpointBeacon(0, BootstrapHash)
SuperB == CheckpointBeacon(1, 31)

ReportedBeacons ==
    {LastBeacon(BeaconA, SuperA), LastBeacon(BeaconB, SuperA),
     LastBeacon(BeaconC, SuperA), LastBeacon(BeaconA, SuperB)}

\* consensus_c values (percent)
Thresholds == {0, 60, 100}

\* the address of the peer in position i of a snapshot: descending, so that
\* snapshot order differs from address order
PeerAddr(i, len) == 10001 + (len - i)

\* all snapshots of exactly len peers
PbOfLen(len, beacons) ==
    {[i \in 1..len |-> [peer |-> PeerAddr(i, len), beacon |-> f[i]]] :
        f \in [1..len -> {None} \cup {Some(b) : b \in beacons}]}

\* the snapshot the sessions manager sends with limit outbound sessions
SessionMsg(pb, limit) == [pb |-> pb, outbound_limit |-> Some(limit)]

\* ------------------------------------------------------------------------
\* State
\* ------------------------------------------------------------------------
VARIABLES
    cm,     \* the ChainManager actor: its fields, and in cm.fx what the
            \* handler that ran last did to its collaborators
    call    \* harness of the PeersBeacons methods: arguments and return value

vars == <<cm, call>>

StateMachine == {"WaitingConsensus", "Synchronizing", "AlmostSynced", "Synced"}

\* ChainManager.consensus_c (percent) and consensus_constants.superblock_period
consensus_c == 60
superblock_period == 2

\* A block: the epoch of its header beacon, its hash, and whether the
\* validations accept it
Block(e, h, v) == [checkpoint |-> e, hash |-> h, valid |-> v]
GenesisBlock == Block(0, GenesisHash, TRUE)

\* ChainState: the part of it the state machine reads
ChainState(b, s) ==
    [highest_block_checkpoint |-> b,
     highest_superblock_checkpoint |-> s,
     superblock_state |-> s]

\* what a handler did: requests for a block batch, restore from storage,
\* replays of the temp superblock votes, beacons broadcast to inbound peers,
\* the block it consolidated, the consensus it computed, the epochs it
\* constructed superblocks for, the hashes it added to the block-hash index
\* of the chain state (indexed), those of them the stored snapshot of the
\* chain state holds (snapshot), and the hashes of the blocks it handed to
\* storage (persisted)
NoEffects(handler) ==
    [handler |-> handler, consensus |-> None,
     requests |-> 0, restored |-> FALSE, replayed |-> 0,
     broadcast_inbound |-> 0, consolidated |-> None, superblocks |-> <<>>,
     indexed |-> {}, snapshot |-> {}, persisted |-> {}, mining |-> FALSE]

Begin(c, handler) == [c EXCEPT !.fx = NoEffects(handler)]

\* ------------------------------------------------------------------------
\* ChainManager methods of chain_manager/mod.rs
\* ------------------------------------------------------------------------
get_chain_beacon(c) == c.chain_state.highest_block_checkpoint
get_superblock_beacon(c) == c.chain_state.highest_superblock_checkpoint

\* emit the request for the next batch and record when the wait started
request_blocks_batch(c) ==
    [c EXCEPT !.sync_waiting_for_add_blocks_since = c.current_epoch,
              !.fx.requests = @ + 1]

\* the in-memory chain state reverts to the persisted snapshot
initialize_from_storage(c) ==
    [c EXCEPT !.chain_state = c.storage, !.fx.restored = TRUE,
              !.fx.indexed = c.fx.snapshot]

persist_chain_state(c) ==
    [c EXCEPT !.storage = c.chain_state, !.fx.snapshot = c.fx.indexed]

\* hand the blocks to storage
persist_blocks_batch(c, blocks) ==
    [c EXCEPT !.fx.persisted = @ \cup {blocks[i].hash : i \in 1..Len(blocks)}]

\* validate the block and, if it is valid, make it the tip of the chain
process_requested_block(c, block) ==
    IF block.valid
    THEN [ok |-> TRUE,
          cm |-> [c EXCEPT !.chain_state.highest_block_checkpoint =
                               CheckpointBeacon(block.checkpoint, block.hash),
                           !.fx.indexed = @ \cup {block.hash}]]
    ELSE [ok |-> FALSE, cm |-> c]

\* persist the block, update the chain state and persist it
consolidate_block(c, block) ==
    persist_chain_state(
        [c EXCEPT !.chain_state.highest_block_checkpoint =
                      CheckpointBeacon(block.checkpoint, block.hash),
                  !.fx.consolidated = Some(block.hash),
                  !.fx.indexed = @ \cup {block.hash},
                  !.fx.persisted = @ \cup {block.hash}])

add_temp_superblock_votes(c) == [c EXCEPT !.fx.replayed = @ + 1]

\* a candidate is kept unless one with its hash is already held; a valid one
\* may become the best candidate
process_candidate(c, block, better) ==
    IF \E held \in c.candidates : held.hash = block.hash THEN c
    ELSE [c EXCEPT !.candidates = @ \cup {block},
                   !.best_candidate = IF block.valid /\ (IsNone(@) \/ better)
                                      THEN Some(block) ELSE @]

\* a transaction: its hash and whether it is a commit
Transaction(h, commit) == [hash |-> h, commit |-> commit]

\* the transaction is indexed as pending; a commit joins the commits of the
\* epoch
add_transaction(c, transaction) ==
    [c EXCEPT !.transactions_pool.pending = @ \cup {transaction.hash},
              !.transactions_pool.co = IF transaction.commit
                                       THEN @ \cup {transaction.hash} ELSE @]

\* ------------------------------------------------------------------------
\* Handler<PeersBeacons>
\* ------------------------------------------------------------------------
peers_needed_for_consensus(msg) ==
    IF IsSome(msg.outbound_limit)
    THEN (Unwrap(msg.outbound_limit) * consensus_c + 99) \div 100
    ELSE 1

\* mutant: is_there_block_consensus is not looked at
peers_to_unregister_block_only(c, msg, beacon_consensus) ==
    IF IsSome(beacon_consensus)
    THEN decide_peers_to_unregister(msg,
             Unwrap(beacon_consensus)[1].highest_block_checkpoint)
    ELSE IF Len(msg.pb) < peers_needed_for_consensus(msg)
    THEN <<>>
    ELSE IF c.sm_state = "AlmostSynced" \/ c.sm_state = "Synced"
    THEN decide_peers_to_unregister(msg, get_chain_beacon(c))
    ELSE PeersOf(msg.pb)

\* mutant: without consensus only the silent peers go, in every state
peers_to_unregister_silent_only(c, msg, beacon_consensus) ==
    IF IsSome(beacon_consensus)
    THEN IF Unwrap(beacon_consensus)[2]
         THEN decide_peers_to_unregister(msg,
                  Unwrap(beacon_consensus)[1].highest_block_checkpoint)
         ELSE decide_peers_to_unregister_s(msg,
                  Unwrap(beacon_consensus)[1].highest_superblock_checkpoint)
    ELSE IF Len(msg.pb) < peers_needed_for_consensus(msg)
    THEN <<>>
    ELSE peers_with_no_beacon(msg)

\* the first peers_to_unregister
peers_to_unregister(c, msg, beacon_consensus) ==
    IF IsSome(beacon_consensus)
    THEN IF Unwrap(beacon_consensus)[2]
         THEN decide_peers_to_unregister(msg,
                  Unwrap(beacon_consensus)[1].highest_block_checkpoint)
         ELSE decide_peers_to_unregister_s(msg,
                  Unwrap(beacon_consensus)[1].highest_superblock_checkpoint)
    ELSE IF Len(msg.pb) < peers_needed_for_consensus(msg)
    THEN <<>>
    ELSE IF c.sm_state = "AlmostSynced" \/ c.sm_state = "Synced"
    THEN decide_peers_to_unregister(msg, get_chain_beacon(c))
    ELSE PeersOf(msg.pb)

IsFork(our_beacon, consensus_beacon) ==
    /\ our_beacon.checkpoint = consensus_beacon.checkpoint
    /\ our_beacon.hash_prev_block # consensus_beacon.hash_prev_block

WithState(c, state) == [c EXCEPT !.sm_state = state]

\* mutant: a waiting node that finds itself on the consensus is Synced at once
peers_beacons_waiting_consensus_to_synced(c, consensus) ==
    LET c1 == [c EXCEPT !.sync_target =
                   Some(SyncTarget(consensus.highest_block_checkpoint,
                                   consensus.highest_superblock_checkpoint))]
        consensus_beacon == consensus.highest_block_checkpoint
        our_beacon == get_chain_beacon(c1)
    IN IF consensus_beacon.hash_prev_block = BootstrapHash
       THEN WithState(c1, "WaitingConsensus")
       ELSE IF our_beacon = consensus_beacon
       THEN WithState(c1, "Synced")
       ELSE IF IsFork(our_beacon, consensus_beacon)
       THEN WithState(initialize_from_storage(c1), "WaitingConsensus")
       ELSE LET candidate == {b \in c1.candidates : b.hash = consensus_beacon.hash_prev_block}
                c2 == [c1 EXCEPT !.candidates = {}]
            IN IF candidate # {}
               THEN LET res == process_requested_block(c2, CHOOSE b \in candidate : TRUE)
                    IN IF res.ok
                       THEN WithState(res.cm, "AlmostSynced")
                       ELSE WithState(request_blocks_batch(res.cm), "Synchronizing")
               ELSE WithState(request_blocks_batch(c2), "Synchronizing")

\* mutant: without the candidate the node synchronizes but asks for no blocks
peers_beacons_waiting_consensus_no_request(c, consensus) ==
    LET c1 == [c EXCEPT !.sync_target =
                   Some(SyncTarget(consensus.highest_block_checkpoint,
                                   consensus.highest_superblock_checkpoint))]
        consensus_beacon == consensus.highest_block_checkpoint
        our_beacon == get_chain_beacon(c1)
    IN IF consensus_beacon.hash_prev_block = BootstrapHash
       THEN WithState(c1, "WaitingConsensus")
       ELSE IF our_beacon = consensus_beacon
       THEN WithState(c1, "AlmostSynced")
       ELSE IF IsFork(our_beacon, consensus_beacon)
       THEN WithState(initialize_from_storage(c1), "WaitingConsensus")
       ELSE LET candidate == {b \in c1.candidates : b.hash = consensus_beacon.hash_prev_block}
                c2 == [c1 EXCEPT !.candidates = {}]
            IN IF candidate # {}
               THEN LET res == process_requested_block(c2, CHOOSE b \in candidate : TRUE)
                    IN IF res.ok
                       THEN WithState(res.cm, "AlmostSynced")
                       ELSE WithState(request_blocks_batch(res.cm), "Synchronizing")
               ELSE WithState(c2, "Synchronizing")

\* mutant: the result of consolidating the candidate is not looked at
peers_beacons_waiting_consensus_ignoring_failure(c, consensus) ==
    LET c1 == [c EXCEPT !.sync_target =
                   Some(SyncTarget(consensus.highest_block_checkpoint,
                                   consensus.highest_superblock_checkpoint))]
        consensus_beacon == consensus.highest_block_checkpoint
        our_beacon == get_chain_beacon(c1)
    IN IF consensus_beacon.hash_prev_block = BootstrapHash
       THEN WithState(c1, "WaitingConsensus")
       ELSE IF our_beacon = consensus_beacon
       THEN WithState(c1, "AlmostSynced")
       ELSE IF IsFork(our_beacon, consensus_beacon)
       THEN WithState(initialize_from_storage(c1), "WaitingConsensus")
       ELSE LET candidate == {b \in c1.candidates : b.hash = consensus_beacon.hash_prev_block}
                c2 == [c1 EXCEPT !.candidates = {}]
            IN IF candidate # {}
               THEN LET res == process_requested_block(c2, CHOOSE b \in candidate : TRUE)
                    IN IF res.ok
                       THEN WithState(res.cm, "AlmostSynced")
                       ELSE WithState(res.cm, "AlmostSynced")
               ELSE WithState(request_blocks_batch(c2), "Synchronizing")

\* StateMachine::WaitingConsensus with a consensus
peers_beacons_waiting_consensus(c, consensus) ==
    LET c1 == [c EXCEPT !.sync_target =
                   Some(SyncTarget(consensus.highest_block_checkpoint,
                                   consensus.highest_superblock_checkpoint))]
        consensus_beacon == consensus.highest_block_checkpoint
        our_beacon == get_chain_beacon(c1)
    IN IF consensus_beacon.hash_prev_block = BootstrapHash
       THEN WithState(c1, "WaitingConsensus")
       ELSE IF our_beacon = consensus_beacon
       THEN WithState(c1, "AlmostSynced")
       ELSE IF IsFork(our_beacon, consensus_beacon)
       THEN WithState(initialize_from_storage(c1), "WaitingConsensus")
       ELSE LET candidate == {b \in c1.candidates : b.hash = consensus_beacon.hash_prev_block}
                c2 == [c1 EXCEPT !.candidates = {}]
            IN IF candidate # {}
               THEN LET res == process_requested_block(c2, CHOOSE b \in candidate : TRUE)
                    IN IF res.ok
                       THEN WithState(res.cm, "AlmostSynced")
                       ELSE WithState(request_blocks_batch(res.cm), "Synchronizing")
               ELSE WithState(request_blocks_batch(c2), "Synchronizing")

\* mutant: a fork ends the synchronization without restoring the chain state
peers_beacons_synchronizing_fork_no_restore(c, consensus) ==
    LET c1 == [c EXCEPT !.sync_target =
                   Some(SyncTarget(consensus.highest_block_checkpoint,
                                   consensus.highest_superblock_checkpoint))]
        consensus_beacon == consensus.highest_block_checkpoint
        our_beacon == get_chain_beacon(c1)
    IN IF our_beacon = consensus_beacon
       THEN WithState(c1, "AlmostSynced")
       ELSE IF IsFork(our_beacon, consensus_beacon)
       THEN WithState(c1, "WaitingConsensus")
       ELSE WithState(c1, "Synchronizing")

\* mutant: a synchronizing node keeps the target it has
peers_beacons_synchronizing_keeping_target(c, consensus) ==
    LET c1 == c
        consensus_beacon == consensus.highest_block_checkpoint
        our_beacon == get_chain_beacon(c1)
    IN IF our_beacon = consensus_beacon
       THEN WithState(c1, "AlmostSynced")
       ELSE IF IsFork(our_beacon, consensus_beacon)
       THEN WithState(initialize_from_storage(c1), "WaitingConsensus")
       ELSE WithState(c1, "Synchronizing")

\* StateMachine::Synchronizing with a consensus
peers_beacons_synchronizing(c, consensus) ==
    LET c1 == [c EXCEPT !.sync_target =
                   Some(SyncTarget(consensus.highest_block_checkpoint,
                                   consensus.highest_superblock_checkpoint))]
        consensus_beacon == consensus.highest_block_checkpoint
        our_beacon == get_chain_beacon(c1)
    IN IF our_beacon = consensus_beacon
       THEN WithState(c1, "AlmostSynced")
       ELSE IF IsFork(our_beacon, consensus_beacon)
       THEN WithState(initialize_from_storage(c1), "WaitingConsensus")
       ELSE WithState(c1, "Synchronizing")

\* mutant: the votes are replayed outside the check for AlmostSynced
peers_beacons_in_consensus_always_replay(c) ==
    add_temp_superblock_votes(
        IF c.sm_state = "AlmostSynced" THEN WithState(c, "Synced") ELSE c)

\* StateMachine::AlmostSynced | StateMachine::Synced with a consensus on our
\* beacon
peers_beacons_in_consensus(c) ==
    IF c.sm_state = "AlmostSynced"
    THEN add_temp_superblock_votes(WithState(c, "Synced"))
    ELSE c

\* the timeout of the wait for a block batch
how_many_epochs_are_we_willing_to_wait_for_one_block_batch == 10

\* mutant: the batch is requested again one epoch later
peers_beacons_timeout_late(c) ==
    IF /\ c.sm_state = "Synchronizing"
       /\ IsSome(c.sync_waiting_for_add_blocks_since)
       /\ Unwrap(c.current_epoch) - Unwrap(c.sync_waiting_for_add_blocks_since)
              > how_many_epochs_are_we_willing_to_wait_for_one_block_batch
    THEN request_blocks_batch(c)
    ELSE c

peers_beacons_timeout(c) ==
    IF /\ c.sm_state = "Synchronizing"
       /\ IsSome(c.sync_waiting_for_add_blocks_since)
       /\ Unwrap(c.current_epoch) - Unwrap(c.sync_waiting_for_add_blocks_since)
              >= how_many_epochs_are_we_willing_to_wait_for_one_block_batch
    THEN request_blocks_batch(c)
    ELSE c

\* the actor after the handling, and the handler's Ok(peers_to_unregister)
Returning(c, peers) == [cm |-> c, ret |-> peers]

\* mutant: an empty snapshot counts as beacons received
handle_peers_beacons_always_received(c0, msg) ==
    LET c1 == [Begin(c0, "PeersBeacons") EXCEPT
                   !.peers_beacons_received = TRUE]
        full_consensus == superblock_consensus(msg, consensus_c)
        first_list == peers_to_unregister(c1, msg, full_consensus)
        no_beacon == peers_with_no_beacon(msg)
        beacon_consensus == IF IsSome(full_consensus)
                            THEN Some(Unwrap(full_consensus)[1]) ELSE None
        c2 == [c1 EXCEPT !.fx.consensus = full_consensus]
        c3 ==
          CASE c2.sm_state = "WaitingConsensus" ->
                 IF IsSome(beacon_consensus)
                 THEN Returning(peers_beacons_waiting_consensus(c2, Unwrap(beacon_consensus)),
                                first_list)
                 ELSE Returning(c2, first_list)
            [] c2.sm_state = "Synchronizing" ->
                 IF IsSome(beacon_consensus)
                 THEN Returning(peers_beacons_synchronizing(c2, Unwrap(beacon_consensus)),
                                first_list)
                 ELSE Returning(WithState(c2, "WaitingConsensus"), first_list)
            [] OTHER ->
                 IF /\ IsSome(beacon_consensus)
                    /\ Unwrap(beacon_consensus).highest_block_checkpoint = get_chain_beacon(c2)
                 THEN Returning(peers_beacons_in_consensus(c2), first_list)
                 ELSE Returning(c2, no_beacon)
    IN Returning(peers_beacons_timeout(c3.cm), c3.ret)

\* mutant: a node in sync that is out of consensus rewinds
handle_peers_beacons_rewinding(c0, msg) ==
    LET c1 == [Begin(c0, "PeersBeacons") EXCEPT
                   !.peers_beacons_received = IF Len(msg.pb) # 0 THEN TRUE ELSE @]
        full_consensus == superblock_consensus(msg, consensus_c)
        first_list == peers_to_unregister(c1, msg, full_consensus)
        no_beacon == peers_with_no_beacon(msg)
        beacon_consensus == IF IsSome(full_consensus)
                            THEN Some(Unwrap(full_consensus)[1]) ELSE None
        c2 == [c1 EXCEPT !.fx.consensus = full_consensus]
        c3 ==
          CASE c2.sm_state = "WaitingConsensus" ->
                 IF IsSome(beacon_consensus)
                 THEN Returning(peers_beacons_waiting_consensus(c2, Unwrap(beacon_consensus)),
                                first_list)
                 ELSE Returning(c2, first_list)
            [] c2.sm_state = "Synchronizing" ->
                 IF IsSome(beacon_consensus)
                 THEN Returning(peers_beacons_synchronizing(c2, Unwrap(beacon_consensus)),
                                first_list)
                 ELSE Returning(WithState(c2, "WaitingConsensus"), first_list)
            [] OTHER ->
                 IF /\ IsSome(beacon_consensus)
                    /\ Unwrap(beacon_consensus).highest_block_checkpoint = get_chain_beacon(c2)
                 THEN Returning(peers_beacons_in_consensus(c2), first_list)
                 ELSE Returning(initialize_from_storage(WithState(c2, "WaitingConsensus")),
                                no_beacon)
    IN Returning(peers_beacons_timeout(c3.cm), c3.ret)

handle_peers_beacons(c0, msg) ==
    LET c1 == [Begin(c0, "PeersBeacons") EXCEPT
                   !.peers_beacons_received = IF Len(msg.pb) # 0 THEN TRUE ELSE @]
        full_consensus == superblock_consensus(msg, consensus_c)
        first_list == peers_to_unregister(c1, msg, full_consensus)
        no_beacon == peers_with_no_beacon(msg)
        beacon_consensus == IF IsSome(full_consensus)
                            THEN Some(Unwrap(full_consensus)[1]) ELSE None
        c2 == [c1 EXCEPT !.fx.consensus = full_consensus]
        c3 ==
          CASE c2.sm_state = "WaitingConsensus" ->
                 IF IsSome(beacon_consensus)
                 THEN Returning(peers_beacons_waiting_consensus(c2, Unwrap(beacon_consensus)),
                                first_list)
                 ELSE Returning(c2, first_list)
            [] c2.sm_state = "Synchronizing" ->
                 IF IsSome(beacon_consensus)
                 THEN Returning(peers_beacons_synchronizing(c2, Unwrap(beacon_consensus)),
                                first_list)
                 ELSE Returning(WithState(c2, "WaitingConsensus"), first_list)
            [] OTHER ->
                 IF /\ IsSome(beacon_consensus)
                    /\ Unwrap(beacon_consensus).highest_block_checkpoint = get_chain_beacon(c2)
                 THEN Returning(peers_beacons_in_consensus(c2), first_list)
                 ELSE Returning(c2, no_beacon)
    IN Returning(peers_beacons_timeout(c3.cm), c3.ret)

\* ------------------------------------------------------------------------
\* Handler<EpochNotification<EveryEpochPayload>>
\* ------------------------------------------------------------------------
\* mutant: the beacon is set but not broadcast
send_last_beacon_inbound_dropped(c) == c

\* SetLastBeacon, then Broadcast of SendLastBeacon with only_inbound: true
send_last_beacon_inbound(c) == [c EXCEPT !.fx.broadcast_inbound = @ + 1]

\* mutant: the commits and the candidates outlive the epoch
epoch_synced_keeping_commits(c, checkpoint, ready) ==
    IF ~ready THEN c
    ELSE LET c1 == IF IsSome(c.best_candidate)
                   THEN consolidate_block([c EXCEPT !.best_candidate = None],
                                          Unwrap(c.best_candidate))
                   ELSE c
         IN [send_last_beacon_inbound(c1) EXCEPT !.fx.mining = TRUE]

\* mutant: the tick goes on without the contexts
epoch_synced_chain_not_ready_ignored(c, checkpoint, ready) ==
    LET c1 == IF IsSome(c.best_candidate)
              THEN consolidate_block([c EXCEPT !.best_candidate = None],
                                     Unwrap(c.best_candidate))
              ELSE c
    IN [send_last_beacon_inbound(c1) EXCEPT !.transactions_pool.co = {},
                                            !.fx.mining = TRUE,
                                            !.candidates = {}]

\* StateMachine::AlmostSynced | StateMachine::Synced; ready: epoch_constants,
\* vrf_ctx and secp are all present; fx.mining: the Mining step was reached
\* (try_mine_data_request runs there when mining_enabled)
epoch_synced(c, checkpoint, ready) ==
    IF ~ready THEN c
    ELSE LET c1 == IF IsSome(c.best_candidate)
                   THEN consolidate_block([c EXCEPT !.best_candidate = None],
                                          Unwrap(c.best_candidate))
                   ELSE c
         IN [send_last_beacon_inbound(c1) EXCEPT !.transactions_pool.co = {},
                                                 !.fx.mining = TRUE,
                                                 !.candidates = {}]

\* mutant: a missed epoch is not noticed
handle_epoch_notification_ignoring_missed(c0, checkpoint, ready) ==
    LET last_checked_epoch == c0.current_epoch
        c1 == [Begin(c0, "EpochNotification") EXCEPT
                  !.current_epoch = Some(checkpoint),
                  !.transactions_pool.pending = {}]
        c2 == IF ~c1.peers_beacons_received
              THEN [c1 EXCEPT !.sm_state = "WaitingConsensus", !.candidates = {}]
              ELSE c1
        c3 == c2
        c4 == [c3 EXCEPT !.peers_beacons_received = FALSE]
    IN CASE c4.sm_state = "WaitingConsensus" -> send_last_beacon_inbound(c4)
         [] c4.sm_state = "Synchronizing" -> c4
         [] OTHER -> epoch_synced(c4, checkpoint, ready)

handle_epoch_notification(c0, checkpoint, ready) ==
    LET last_checked_epoch == c0.current_epoch
        c1 == [Begin(c0, "EpochNotification") EXCEPT
                  !.current_epoch = Some(checkpoint),
                  !.transactions_pool.pending = {}]
        c2 == IF ~c1.peers_beacons_received
              THEN [c1 EXCEPT !.sm_state = "WaitingConsensus", !.candidates = {}]
              ELSE c1
        c3 == IF IsSome(last_checked_epoch) /\ checkpoint - Unwrap(last_checked_epoch) # 1
              THEN WithState(c2, "WaitingConsensus")
              ELSE c2
        c4 == [c3 EXCEPT !.peers_beacons_received = FALSE]
    IN CASE c4.sm_state = "WaitingConsensus" -> send_last_beacon_inbound(c4)
         [] c4.sm_state = "Synchronizing" -> c4
         [] OTHER -> epoch_synced(c4, checkpoint, ready)

\* ------------------------------------------------------------------------
\* split_blocks_batch_at_target
\* ------------------------------------------------------------------------
\* Iterator::position of the first block at or after the epoch, 0 when none
\* (positions count from 1)
\* mutant: the part starts after its first epoch
PositionFrom_strictly_after(blocks, first_epoch) ==
    LET hits == {i \in DOMAIN blocks : blocks[i].checkpoint > first_epoch}
    IN IF hits = {} THEN 0 ELSE CHOOSE i \in hits : \A j \in hits : i <= j

PositionFrom(blocks, first_epoch) ==
    LET hits == {i \in DOMAIN blocks : blocks[i].checkpoint >= first_epoch}
    IN IF hits = {} THEN 0 ELSE CHOOSE i \in hits : \A j \in hits : i <= j

\* mutant: the block at the position is lost
SplitOff_losing_one(blocks, pos) ==
    <<SubSeq(blocks, 1, pos - 1), SubSeq(blocks, pos + 1, Len(blocks))>>

\* Vec::split_off at the position: <<kept, split off>>
SplitOff(blocks, pos) ==
    <<SubSeq(blocks, 1, pos - 1), SubSeq(blocks, pos, Len(blocks))>>

\* mutant: the last epoch is compared with the first epoch of the next part
ClosesAt_off_by_one(part, first_epoch_next) ==
    /\ IsSome(part)
    /\ Len(Unwrap(part)) > 0
    /\ Unwrap(part)[Len(Unwrap(part))].checkpoint = first_epoch_next

\* the part after `part` is Some(vec![]) when `part` ends right before it
ClosesAt(part, first_epoch_next) ==
    /\ IsSome(part)
    /\ Len(Unwrap(part)) > 0
    /\ Unwrap(part)[Len(Unwrap(part))].checkpoint = first_epoch_next - 1

\* mutant: the index is that of the target when they coincide
next_index_never_none(epoch, sync_target, period) == Some(epoch \div period)

\* the index of the second superblock to construct, if any
next_index(epoch, sync_target, period) ==
    IF epoch \div period = sync_target.superblock.checkpoint
    THEN None ELSE Some(epoch \div period)

split_blocks_batch_at_target(blocks, epoch, sync_target, period) ==
    LET first_epoch_part_2 == sync_target.superblock.checkpoint * period
        first_epoch_part_3 == (sync_target.superblock.checkpoint + 1) * period
        first_epoch_part_4 == (sync_target.superblock.checkpoint + 2) * period
        i2 == PositionFrom(blocks, first_epoch_part_2)
        s2 == IF i2 = 0 THEN <<blocks, <<>>>> ELSE SplitOff(blocks, i2)
        i3 == IF i2 = 0 THEN 0 ELSE PositionFrom(s2[2], first_epoch_part_3)
        s3 == IF i3 = 0 THEN <<s2[2], <<>>>> ELSE SplitOff(s2[2], i3)
        i4 == IF i3 = 0 THEN 0 ELSE PositionFrom(s3[2], first_epoch_part_4)
        s4 == IF i4 = 0 THEN <<s3[2], <<>>>> ELSE SplitOff(s3[2], i4)
        part_1 == s2[1]
        part_2a == IF i2 = 0 THEN None ELSE Some(s3[1])
        part_3a == IF i3 = 0 THEN None ELSE Some(s4[1])
        part_4a == IF i4 = 0 THEN None ELSE Some(s4[2])
        part_2 == IF IsNone(part_2a) /\ ClosesAt(Some(part_1), first_epoch_part_2)
                  THEN Some(<<>>) ELSE part_2a
        part_3 == IF IsNone(part_3a) /\ ClosesAt(part_2, first_epoch_part_3)
                  THEN Some(<<>>) ELSE part_3a
        part_4 == IF IsNone(part_4a) /\ ClosesAt(part_3, first_epoch_part_4)
                  THEN Some(<<>>) ELSE part_4a
    IN <<part_1, part_2, part_3, part_4, next_index(epoch, sync_target, period)>>

\* ------------------------------------------------------------------------
\* Handler<AddBlocks>
\* ------------------------------------------------------------------------
\* process the blocks in order; the first invalid one restores the chain
\* state from storage and ends the batch (chain_manager/mod.rs)
RECURSIVE process_blocks_batch(_, _)
process_blocks_batch(c, blocks) ==
    IF blocks = <<>> THEN [ok |-> TRUE, n |-> 0, cm |-> c]
    ELSE LET res == process_requested_block(c, Head(blocks))
         IN IF ~res.ok
            THEN [ok |-> FALSE, n |-> 0, cm |-> initialize_from_storage(res.cm)]
            ELSE LET rest == process_blocks_batch(res.cm, Tail(blocks))
                 IN [rest EXCEPT !.n = @ + 1]

\* build the superblock of the epoch; its hash depends on what the chain holds
construct_superblock(c, epoch, hash) ==
    [c EXCEPT !.chain_state.superblock_state = CheckpointBeacon(epoch \div superblock_period, hash),
              !.fx.superblocks = Append(@, epoch)]

\* "If we are not synchronizing, forget about when we started synchronizing"
forget_sync_start(c) ==
    IF c.sm_state # "Synchronizing"
    THEN [c EXCEPT !.sync_waiting_for_add_blocks_since = None]
    ELSE c

\* mutant: an invalid block in part 3 leaves the node synchronizing
add_blocks_part_3_failure_ignored(c, blocks3) ==
    LET res == process_blocks_batch(c, blocks3)
    IN IF ~res.ok
       THEN forget_sync_start(WithState(res.cm, "Synchronizing"))
       ELSE WithState(res.cm, "WaitingConsensus")

\* third stage: the blocks of part 3
add_blocks_part_3(c, blocks3) ==
    LET res == process_blocks_batch(c, blocks3)
    IN IF ~res.ok
       THEN forget_sync_start(WithState(res.cm, "WaitingConsensus"))
       ELSE WithState(res.cm, "WaitingConsensus")

\* mutant: an invalid block in part 2 leaves the node synchronizing
add_blocks_part_2_failure_ignored(c, blocks2, blocks3, epoch2, hash2) ==
    LET res == process_blocks_batch(c, blocks2)
    IN IF ~res.ok
       THEN res.cm
       ELSE IF IsSome(epoch2)
       THEN add_blocks_part_3(
                construct_superblock(
                    WithState(persist_blocks_batch(res.cm, blocks2), "WaitingConsensus"),
                    Unwrap(epoch2) * superblock_period, hash2),
                blocks3)
       ELSE add_blocks_part_3(res.cm, blocks3)

\* second stage: the blocks of part 2 and the superblock after the target
add_blocks_part_2(c, blocks2, blocks3, epoch2, hash2) ==
    LET res == process_blocks_batch(c, blocks2)
    IN IF ~res.ok
       THEN WithState(res.cm, "WaitingConsensus")
       ELSE IF IsSome(epoch2)
       THEN add_blocks_part_3(
                construct_superblock(
                    WithState(persist_blocks_batch(res.cm, blocks2), "WaitingConsensus"),
                    Unwrap(epoch2) * superblock_period, hash2),
                blocks3)
       ELSE add_blocks_part_3(res.cm, blocks3)

\* mutant: the chain state is not persisted when the superblock matches
add_blocks_target_superblock_unpersisted(c, sync_target, blocks2, blocks3, epoch2, hash1, hash2) ==
    LET c1 == construct_superblock(c,
                  sync_target.superblock.checkpoint * superblock_period, hash1)
    IN IF hash1 = sync_target.superblock.hash_prev_block
       THEN add_blocks_part_2(
                [c1 EXCEPT !.chain_state.highest_superblock_checkpoint =
                               c1.chain_state.superblock_state],
                blocks2, blocks3, epoch2, hash2)
       ELSE forget_sync_start(initialize_from_storage(WithState(c1, "WaitingConsensus")))

\* the closure that receives the target superblock
add_blocks_target_superblock(c, sync_target, blocks2, blocks3, epoch2, hash1, hash2) ==
    LET c1 == construct_superblock(c,
                  sync_target.superblock.checkpoint * superblock_period, hash1)
    IN IF hash1 = sync_target.superblock.hash_prev_block
       THEN add_blocks_part_2(
                persist_chain_state(
                    [c1 EXCEPT !.chain_state.highest_superblock_checkpoint =
                                   c1.chain_state.superblock_state]),
                blocks2, blocks3, epoch2, hash2)
       ELSE forget_sync_start(initialize_from_storage(WithState(c1, "WaitingConsensus")))

\* mutant: the outcome of part 1 is not looked at
add_blocks_synchronizing_part_1_unchecked(c, blocks, hash1, hash2) ==
    LET sync_target == Unwrap(c.sync_target)
        parts == split_blocks_batch_at_target(Tail(blocks), Unwrap(c.current_epoch),
                                              sync_target, superblock_period)
        res == process_blocks_batch(c, parts[1])
    IN IF IsNone(parts[2])
       THEN request_blocks_batch(res.cm)
       ELSE LET blocks2 == Unwrap(parts[2])
                blocks3 == IF IsSome(parts[3]) THEN Unwrap(parts[3]) ELSE <<>>
                need_to_construct_superblock ==
                    sync_target.superblock.checkpoint
                        # res.cm.chain_state.superblock_state.checkpoint
                \* the handler returns before the deferred stages run
                returned == forget_sync_start(res.cm)
            IN IF need_to_construct_superblock
               THEN add_blocks_target_superblock(
                        persist_blocks_batch(returned, parts[1]),
                        sync_target, blocks2, blocks3, parts[5], hash1, hash2)
               ELSE add_blocks_part_2(returned, blocks2, blocks3, parts[5], hash2)

\* mutant: the next batch is not requested
add_blocks_synchronizing_no_request(c, blocks, hash1, hash2) ==
    LET sync_target == Unwrap(c.sync_target)
        parts == split_blocks_batch_at_target(Tail(blocks), Unwrap(c.current_epoch),
                                              sync_target, superblock_period)
        res == process_blocks_batch(c, parts[1])
    IN IF ~res.ok
       THEN forget_sync_start(WithState(res.cm, "WaitingConsensus"))
       ELSE IF IsNone(parts[2])
       THEN res.cm
       ELSE LET blocks2 == Unwrap(parts[2])
                blocks3 == IF IsSome(parts[3]) THEN Unwrap(parts[3]) ELSE <<>>
                need_to_construct_superblock ==
                    sync_target.superblock.checkpoint
                        # res.cm.chain_state.superblock_state.checkpoint
                \* the handler returns before the deferred stages run
                returned == forget_sync_start(res.cm)
            IN IF need_to_construct_superblock
               THEN add_blocks_target_superblock(
                        persist_blocks_batch(returned, parts[1]),
                        sync_target, blocks2, blocks3, parts[5], hash1, hash2)
               ELSE add_blocks_part_2(returned, blocks2, blocks3, parts[5], hash2)

\* mutant: the first block of the batch is kept
add_blocks_synchronizing_keeping_first(c, blocks, hash1, hash2) ==
    LET sync_target == Unwrap(c.sync_target)
        parts == split_blocks_batch_at_target(blocks, Unwrap(c.current_epoch),
                                              sync_target, superblock_period)
        res == process_blocks_batch(c, parts[1])
    IN IF ~res.ok
       THEN forget_sync_start(WithState(res.cm, "WaitingConsensus"))
       ELSE IF IsNone(parts[2])
       THEN request_blocks_batch(res.cm)
       ELSE LET blocks2 == Unwrap(parts[2])
                blocks3 == IF IsSome(parts[3]) THEN Unwrap(parts[3]) ELSE <<>>
                need_to_construct_superblock ==
                    sync_target.superblock.checkpoint
                        # res.cm.chain_state.superblock_state.checkpoint
                \* the handler returns before the deferred stages run
                returned == forget_sync_start(res.cm)
            IN IF need_to_construct_superblock
               THEN add_blocks_target_superblock(
                        persist_blocks_batch(returned, parts[1]),
                        sync_target, blocks2, blocks3, parts[5], hash1, hash2)
               ELSE add_blocks_part_2(returned, blocks2, blocks3, parts[5], hash2)

\* StateMachine::Synchronizing, a target and a non-empty batch
add_blocks_synchronizing(c, blocks, hash1, hash2) ==
    LET sync_target == Unwrap(c.sync_target)
        parts == split_blocks_batch_at_target(Tail(blocks), Unwrap(c.current_epoch),
                                              sync_target, superblock_period)
        res == process_blocks_batch(c, parts[1])
    IN IF ~res.ok
       THEN forget_sync_start(WithState(res.cm, "WaitingConsensus"))
       ELSE IF IsNone(parts[2])
       THEN request_blocks_batch(res.cm)
       ELSE LET blocks2 == Unwrap(parts[2])
                blocks3 == IF IsSome(parts[3]) THEN Unwrap(parts[3]) ELSE <<>>
                need_to_construct_superblock ==
                    sync_target.superblock.checkpoint
                        # res.cm.chain_state.superblock_state.checkpoint
                \* the handler returns before the deferred stages run
                returned == forget_sync_start(res.cm)
            IN IF need_to_construct_superblock
               THEN add_blocks_target_superblock(
                        persist_blocks_batch(returned, parts[1]),
                        sync_target, blocks2, blocks3, parts[5], hash1, hash2)
               ELSE add_blocks_part_2(returned, blocks2, blocks3, parts[5], hash2)

\* mutant: a waiting node processes any batch of one block
handle_add_blocks_any_single_block(c0, blocks, hash1, hash2) ==
    LET c == Begin(c0, "AddBlocks")
    IN CASE c.sm_state = "WaitingConsensus" ->
              forget_sync_start(
                  IF Len(blocks) = 1
                  THEN process_requested_block(c, blocks[1]).cm
                  ELSE c)
         [] c.sm_state = "Synchronizing" ->
              IF IsNone(c.sync_target) THEN c
              ELSE IF blocks = <<>>
              THEN forget_sync_start(initialize_from_storage(WithState(c, "WaitingConsensus")))
              ELSE add_blocks_synchronizing(c, blocks, hash1, hash2)
         [] OTHER -> forget_sync_start(c)

handle_add_blocks(c0, blocks, hash1, hash2) ==
    LET c == Begin(c0, "AddBlocks")
    IN CASE c.sm_state = "WaitingConsensus" ->
              forget_sync_start(
                  IF Len(blocks) = 1 /\ blocks[1].hash = GenesisHash
                  THEN process_requested_block(c, blocks[1]).cm
                  ELSE c)
         [] c.sm_state = "Synchronizing" ->
              IF IsNone(c.sync_target) THEN c
              ELSE IF blocks = <<>>
              THEN forget_sync_start(initialize_from_storage(WithState(c, "WaitingConsensus")))
              ELSE add_blocks_synchronizing(c, blocks, hash1, hash2)
         [] OTHER -> forget_sync_start(c)

\* ------------------------------------------------------------------------
\* Handler<AddBlocks> stage by stage: the body of the handler up to
\* .wait(ctx), then the futures it left waiting, one at a time
\* ------------------------------------------------------------------------
\* the handler leaves futures waiting when part 1 succeeded and the target
\* was reached
add_blocks_waits(c, blocks) ==
    /\ c.sm_state = "Synchronizing"
    /\ IsSome(c.sync_target)
    /\ blocks # <<>>
    /\ LET parts == split_blocks_batch_at_target(Tail(blocks), Unwrap(c.current_epoch),
                                                 Unwrap(c.sync_target), superblock_period)
       IN process_blocks_batch(c, parts[1]).ok /\ IsSome(parts[2])

\* the body of such a handling, and the first future that waits
add_blocks_start(c0, blocks) ==
    LET c == Begin(c0, "AddBlocks")
        sync_target == Unwrap(c.sync_target)
        parts == split_blocks_batch_at_target(Tail(blocks), Unwrap(c.current_epoch),
                                              sync_target, superblock_period)
        returned == forget_sync_start(process_blocks_batch(c, parts[1]).cm)
    IN IF sync_target.superblock.checkpoint
              # returned.chain_state.superblock_state.checkpoint
       THEN [cm |-> persist_blocks_batch(returned, parts[1]),
             stage |-> "target_superblock"]
       ELSE [cm |-> returned, stage |-> "part_2"]

\* construct_superblock(..).and_then(..): the closure on the target superblock
add_blocks_stage_target_superblock(c, sync_target, hash1) ==
    LET c1 == construct_superblock(c,
                  sync_target.superblock.checkpoint * superblock_period, hash1)
    IN IF hash1 = sync_target.superblock.hash_prev_block
       THEN [cm |-> persist_chain_state(
                        [c1 EXCEPT !.chain_state.highest_superblock_checkpoint =
                                       c1.chain_state.superblock_state]),
             stage |-> "part_2"]
       ELSE [cm |-> forget_sync_start(
                        initialize_from_storage(WithState(c1, "WaitingConsensus"))),
             stage |-> "done"]

\* .and_then(..): part 2 and the construction of the second superblock
add_blocks_stage_part_2(c, blocks2, epoch2, hash2) ==
    LET res == process_blocks_batch(c, blocks2)
    IN IF ~res.ok
       THEN [cm |-> WithState(res.cm, "WaitingConsensus"), stage |-> "done"]
       ELSE IF IsSome(epoch2)
       THEN [cm |-> construct_superblock(
                        WithState(persist_blocks_batch(res.cm, blocks2),
                                  "WaitingConsensus"),
                        Unwrap(epoch2) * superblock_period, hash2),
             stage |-> "part_3"]
       ELSE [cm |-> res.cm, stage |-> "part_3"]

\* .and_then(..).wait(ctx): part 3
add_blocks_stage_part_3(c, blocks3) ==
    [cm |-> add_blocks_part_3(c, blocks3), stage |-> "done"]

\* ------------------------------------------------------------------------
\* Handler<AddCandidates>, and the handlers that require the Synced state
\* ------------------------------------------------------------------------
handle_add_candidates(c0, block, better) ==
    process_candidate(Begin(c0, "AddCandidates"), block, better)

\* Handler<AddTransaction>, and Handler<AddCommitReveal> which ends in it
handle_add_transaction(c0, transaction) ==
    add_transaction(Begin(c0, "AddTransaction"), transaction)

\* the requests that are answered in the Synced state only
BuildRequests == {"BuildVtt", "BuildDrt"}
ReputationRequests == {"GetReputation", "GetReputationAll", "GetReputationStatus"}
SyncedRequests == BuildRequests \cup {"GetBalance", "GetUtxoInfo"} \cup ReputationRequests

\* the hash of the transaction a build request creates
BuiltHash == 43

\* ChainManagerError::NotSynced { current_state }
NotSynced(current_state) == <<"NotSynced", current_state>>

\* mutant: the reputation engine is looked for before the state
handle_synced_request_engine_first(c0, request, ok) ==
    LET c == Begin(c0, "SyncedRequest")
    IN IF request \in ReputationRequests /\ ~ok
       THEN [cm |-> c, ret |-> <<"ChainNotReady">>]
       ELSE IF c.sm_state # "Synced"
       THEN [cm |-> c, ret |-> NotSynced(c.sm_state)]
       ELSE IF request \in BuildRequests
       THEN IF ok
            THEN [cm |-> add_transaction([c EXCEPT !.own_utxos = 1],
                                         Transaction(BuiltHash, FALSE)),
                  ret |-> <<"Ok">>]
            ELSE [cm |-> c, ret |-> <<"Err">>]
       ELSE [cm |-> c, ret |-> <<"Ok">>]

\* BuildVtt, BuildDrt, GetBalance, GetUtxoInfo, GetReputation,
\* GetReputationAll, GetReputationStatus: NotSynced unless Synced. ok: the
\* transaction can be built (build requests), the reputation engine is
\* present (reputation requests). A built transaction marks outputs of the
\* node as used and is added to the pool.
handle_synced_request(c0, request, ok) ==
    LET c == Begin(c0, "SyncedRequest")
    IN IF c.sm_state # "Synced"
       THEN [cm |-> c, ret |-> NotSynced(c.sm_state)]
       ELSE IF request \in BuildRequests
       THEN IF ok
            THEN [cm |-> add_transaction([c EXCEPT !.own_utxos = 1],
                                         Transaction(BuiltHash, FALSE)),
                  ret |-> <<"Ok">>]
            ELSE [cm |-> c, ret |-> <<"Err">>]
       ELSE IF request \in ReputationRequests /\ ~ok
       THEN [cm |-> c, ret |-> <<"ChainNotReady">>]
       ELSE [cm |-> c, ret |-> <<"Ok">>]

\* ------------------------------------------------------------------------
\* The chain manager as a state machine
\* ------------------------------------------------------------------------
\* what the peers of the node report
SessionBeacons ==
    {LastBeacon(BeaconA, SuperA), LastBeacon(BeaconB, SuperA), LastBeacon(BeaconA, SuperB)}

\* the same, and the beacon of a network that has no genesis block yet
NetworkBeacons == SessionBeacons \cup {LastBeacon(BeaconBoot, SuperA)}

\* the same, and a tip two superblocks ahead of the empty chain
SuperC == CheckpointBeacon(2, 32)
SyncBeacons == NetworkBeacons \cup {LastBeacon(BeaconC, SuperC)}

\* the candidate blocks the network proposes
CandidateBlocks == {Block(1, 11, TRUE), Block(1, 11, FALSE)}

\* the chain the network synchronizes the node to: one block per epoch
SyncBlock(e, v) == Block(e, GenesisHash + e, v)

\* batches of at most MaxBatch blocks, strictly ascending by epoch, of which
\* at most one is invalid
Batches ==
    {<<>>} \cup
    UNION {{[i \in 1..len |-> SyncBlock(es[i], i # bad)] :
              es \in {f \in [1..len -> 0..MaxBlockEpoch] :
                         \A i \in 1..(len - 1) : f[i] < f[i + 1]},
              bad \in 0..len} : len \in 1..MaxBatch}

\* the hash of a constructed superblock that is not the one of the target
OtherSuperblockHash == 32

\* the hashes the target superblock can come out with
SuperblockHashes(c) ==
    IF c.sm_state = "Synchronizing" /\ IsSome(c.sync_target)
    THEN {Unwrap(c.sync_target).superblock.hash_prev_block, OtherSuperblockHash}
    ELSE {OtherSuperblockHash}

IdleCall ==
    [msg |-> [pb |-> <<>>, outbound_limit |-> None], threshold |-> consensus_c,
     beacon |-> BeaconBoot, before |-> "WaitingConsensus", op |-> "idle",
     ret |-> None, prev |-> None]

Init ==
    /\ call = IdleCall
    /\ cm = [sm_state |-> "WaitingConsensus",
             peers_beacons_received |-> FALSE,
             current_epoch |-> None,
             sync_target |-> None,
             sync_waiting_for_add_blocks_since |-> None,
             chain_state |-> ChainState(BeaconBoot, SuperA),
             storage |-> ChainState(BeaconBoot, SuperA),
             candidates |-> {},
             best_candidate |-> None,
             transactions_pool |-> [pending |-> {}, co |-> {}],
             own_utxos |-> 0,
             fx |-> NoEffects("started")]

EpochNotification ==
    /\ \E checkpoint \in 0..MaxEpoch, ready \in BOOLEAN :
          /\ IsSome(cm.current_epoch) => checkpoint > Unwrap(cm.current_epoch)
          /\ cm' = handle_epoch_notification(cm, checkpoint, ready)
    /\ call' = IdleCall

\* the sessions manager delivers the beacons of an epoch
PeersBeacons ==
    /\ IsSome(cm.current_epoch)
    /\ \E len \in 0..MaxSessions :
          \E pb \in PbOfLen(len, NetworkBeacons) :
              cm' = handle_peers_beacons(cm, SessionMsg(pb, MaxSessions)).cm
    /\ call' = IdleCall

\* the transactions the node is sent: a value transfer and a commit
SentTransactions == {Transaction(41, FALSE), Transaction(42, TRUE)}

AddTransaction ==
    /\ \E transaction \in SentTransactions :
          cm' = handle_add_transaction(cm, transaction)
    /\ call' = IdleCall

AddCandidates ==
    /\ \E block \in CandidateBlocks, better \in BOOLEAN :
          cm' = handle_add_candidates(cm, block, better)
    /\ call' = IdleCall

\* a peer answers with a batch of blocks
AddBlocks ==
    /\ IsSome(cm.current_epoch)
    /\ \E blocks \in Batches, hash1 \in SuperblockHashes(cm) :
          cm' = handle_add_blocks(cm, blocks, hash1, OtherSuperblockHash)
    /\ call' = IdleCall

\* a request that reads: balances, outputs and reputation
SyncedRequest ==
    /\ \E request \in SyncedRequests \ BuildRequests, ok \in BOOLEAN :
          cm' = handle_synced_request(cm, request, ok).cm
    /\ call' = IdleCall

Next ==
    \/ EpochNotification
    \/ PeersBeacons
    \/ AddBlocks
    \/ AddCandidates
    \/ SyncedRequest

Spec == Init /\ [][Next]_vars

\* -- the PeersBeacons methods, applied to every snapshot -------------------
\* no actor runs while the methods are exercised
\* ------------------------------------------------------------------------
\* The actor with the PeersBeacons message and its answer on record: the
\* node is driven by epoch ticks, candidates and beacon snapshots, and call
\* keeps the snapshot being answered, the state and chain beacon the handler
\* found and the peers it answered
\* ------------------------------------------------------------------------
MaxReporting == 3

PeersBeaconsRecorded ==
    /\ IsSome(cm.current_epoch)
    /\ \E len \in 0..MaxReporting :
          \E pb \in PbOfLen(len, SessionBeacons) :
              LET msg == SessionMsg(pb, MaxReporting)
                  handled == handle_peers_beacons(cm, msg)
              IN /\ cm' = handled.cm
                 /\ call' = [msg |-> msg, threshold |-> consensus_c,
                             beacon |-> get_chain_beacon(cm),
                             before |-> cm.sm_state, op |-> "PeersBeacons",
                             ret |-> handled.ret, prev |-> None]

\* the sessions manager takes the answer; the record is cleared
PeersBeaconsAnswered ==
    /\ call.op = "PeersBeacons"
    /\ call' = IdleCall
    /\ UNCHANGED cm

PeersBeaconsNext ==
    \/ (call.op = "idle" /\ EpochNotification)
    \/ (call.op = "idle" /\ PeersBeaconsRecorded)
    \/ (call.op = "idle" /\ AddCandidates)
    \/ PeersBeaconsAnswered

SpecPeersBeacons == Init /\ [][PeersBeaconsNext]_vars

\* ------------------------------------------------------------------------
\* The consensus functions on their own
\* ------------------------------------------------------------------------
NoChainManager == [sm_state |-> "WaitingConsensus"]

\* a snapshot of up to MaxPeers peers, with no outbound limit or with one
\* that the snapshot does not exceed
CallInit ==
    \E len \in 0..MaxPeers :
        \E pb \in PbOfLen(len, ReportedBeacons),
           ol \in {None} \cup {Some(n) : n \in len..(MaxPeers + 1)} :
            /\ call = [IdleCall EXCEPT !.msg = [pb |-> pb, outbound_limit |-> ol],
                                       !.op = "none"]
            /\ cm = NoChainManager

CallBlockConsensus ==
    /\ call.op = "none"
    /\ \E t \in Thresholds :
          /\ call' = [call EXCEPT !.op = "block_consensus", !.threshold = t,
                                  !.ret = block_consensus(call.msg, t)]
          /\ UNCHANGED cm

CallSuperblockConsensus ==
    /\ call.op = "none"
    /\ \E t \in Thresholds :
          /\ call' = [call EXCEPT !.op = "superblock_consensus", !.threshold = t,
                                  !.ret = superblock_consensus(call.msg, t)]
          /\ UNCHANGED cm

\* one more peer reports exactly the consensus that was just returned
CallSuperblockConsensusAgain ==
    /\ call.op = "superblock_consensus"
    /\ IsSome(call.ret)
    /\ IsSome(call.msg.outbound_limit)
    /\ Len(call.msg.pb) < Unwrap(call.msg.outbound_limit)
    /\ LET joined == [call.msg EXCEPT !.pb = Append(@,
                         [peer |-> 10000, beacon |-> Some(Unwrap(call.ret)[1])])]
       IN call' = [call EXCEPT !.msg = joined,
                               !.op = "superblock_consensus_again",
                               !.prev = call.ret,
                               !.ret = superblock_consensus(joined, call.threshold)]
    /\ UNCHANGED cm

\* superblock_consensus runs a second time on the same snapshot
CallSuperblockConsensusRepeat ==
    /\ call.op = "superblock_consensus"
    /\ call' = [call EXCEPT !.op = "superblock_consensus_repeat",
                            !.prev = call.ret,
                            !.ret = superblock_consensus(call.msg, call.threshold)]
    /\ UNCHANGED cm

CallDecidePeersToUnregister ==
    /\ call.op = "none"
    /\ \E b \in {BeaconA, BeaconC} :
          /\ call' = [call EXCEPT !.op = "decide_peers_to_unregister", !.beacon = b,
                                  !.ret = decide_peers_to_unregister(call.msg, b)]
          /\ UNCHANGED cm

CallNext ==
    \/ CallBlockConsensus
    \/ CallSuperblockConsensus
    \/ CallSuperblockConsensusAgain
    \/ CallSuperblockConsensusRepeat
    \/ CallDecidePeersToUnregister

SpecConsensus == CallInit /\ [][CallNext]_vars

\* ------------------------------------------------------------------------
\* split_blocks_batch_at_target on its own: a batch sorted strictly
\* ascending by epoch, a target superblock index and a period, then the
\* split at some current epoch
\* ------------------------------------------------------------------------
MaxSplitEpoch == 8
MaxSplitBatch == 4
SplitPeriods == {1, 2, 3}
SplitTargets == {0, 1, 2}

\* the elements of a set of epochs in ascending order
Ascending(epochs) ==
    [i \in 1..Cardinality(epochs) |->
        CHOOSE e \in epochs : Cardinality({x \in epochs : x < e}) = i - 1]

SplitInit ==
    \E epochs \in SUBSET (0..MaxSplitEpoch), index \in SplitTargets, period \in SplitPeriods :
        /\ Cardinality(epochs) <= MaxSplitBatch
        /\ call = [op |-> "none",
                   blocks |-> [i \in 1..Cardinality(epochs) |->
                                  SyncBlock(Ascending(epochs)[i], TRUE)],
                   sync_target |-> SyncTarget(BeaconA, CheckpointBeacon(index, 31)),
                   period |-> period, epoch |-> 0, ret |-> None]
        /\ cm = NoChainManager

CallSplit ==
    /\ call.op = "none"
    /\ \E epoch \in 0..MaxSplitEpoch :
          call' = [call EXCEPT !.op = "split_blocks_batch_at_target",
                               !.epoch = epoch,
                               !.ret = split_blocks_batch_at_target(
                                           call.blocks, epoch, call.sync_target, call.period)]
    /\ UNCHANGED cm

SplitNext == CallSplit

SpecSplit == SplitInit /\ [][SplitNext]_vars

\* ------------------------------------------------------------------------
\* The actor with the AddBlocks message on record: the node is driven by
\* epoch ticks and beacon snapshots, and is sent batches long enough to
\* reach every part of the split; call keeps the batch, the hash the target
\* superblock came out with and the target, epoch and superblock state the
\* handler found
\* ------------------------------------------------------------------------
MaxSyncEpoch == 2
MaxSyncBatch == 3

AddBlocksRecorded ==
    /\ IsSome(cm.current_epoch)
    /\ \E epochs \in SUBSET (0..MaxSyncEpoch) :
          /\ Cardinality(epochs) <= MaxSyncBatch
          /\ \E bad \in 0..Cardinality(epochs), hash1 \in SuperblockHashes(cm) :
                LET blocks == [i \in 1..Cardinality(epochs) |->
                                  SyncBlock(Ascending(epochs)[i], i # bad)]
                IN /\ cm' = handle_add_blocks(cm, blocks, hash1, OtherSuperblockHash)
                   /\ call' = [IdleCall EXCEPT
                                   !.msg = [blocks |-> blocks, hash1 |-> hash1],
                                   !.before = cm.sm_state,
                                   !.op = "AddBlocks",
                                   !.prev = Some([sync_target |-> cm.sync_target,
                                                  current_epoch |-> cm.current_epoch,
                                                  chain_state |-> cm.chain_state,
                                                  storage |-> cm.storage,
                                                  superblock_state |->
                                                      cm.chain_state.superblock_state])]

\* the beacons of an epoch arrive; call keeps the state the handler found
PeersBeaconsWhileSyncing ==
    /\ IsSome(cm.current_epoch)
    /\ \E len \in 0..MaxSessions :
          \E pb \in PbOfLen(len, SyncBeacons) :
              cm' = handle_peers_beacons(cm, SessionMsg(pb, MaxSessions)).cm
    /\ call' = [IdleCall EXCEPT !.before = cm.sm_state, !.op = "PeersBeacons"]

\* the record is cleared before the next message is handled
AddBlocksAnswered ==
    /\ call.op = "AddBlocks"
    /\ call' = IdleCall
    /\ UNCHANGED cm

AddBlocksNext ==
    \/ (call.op = "idle" /\ EpochNotification)
    \/ (call.op = "idle" /\ PeersBeaconsWhileSyncing)
    \/ (call.op = "idle" /\ AddBlocksRecorded)
    \/ PeersBeaconsAnswered
    \/ AddBlocksAnswered

SpecAddBlocks == Init /\ [][AddBlocksNext]_vars

\* ------------------------------------------------------------------------
\* The stages of AddBlocks and the mailbox.  call holds the futures that
\* wait: the batch, the stage that is next and how many stages have run,
\* and the actor as the handler found it, its effects record started anew.
\* ------------------------------------------------------------------------
MaxStageEpoch == 2
MaxStageBatch == 2

\* mutant: the futures are spawned, the mailbox stays open while they wait
MailboxOpen_while_waiting == call.op = "idle" \/ call.op = "waiting"

\* ctx.wait: no message is taken from the mailbox while a future waits
MailboxOpen == call.op = "idle"

StagedEpochNotification ==
    /\ MailboxOpen
    /\ \E checkpoint \in 0..MaxEpoch, ready \in BOOLEAN :
          /\ IsSome(cm.current_epoch) => checkpoint > Unwrap(cm.current_epoch)
          /\ cm' = handle_epoch_notification(cm, checkpoint, ready)
    /\ UNCHANGED call

StagedPeersBeacons ==
    /\ MailboxOpen
    /\ IsSome(cm.current_epoch)
    /\ \E len \in 0..MaxSessions :
          \E pb \in PbOfLen(len, NetworkBeacons) :
              cm' = handle_peers_beacons(cm, SessionMsg(pb, MaxSessions)).cm
    /\ UNCHANGED call

AddBlocksStart ==
    /\ MailboxOpen
    /\ IsSome(cm.current_epoch)
    /\ \E epochs \in SUBSET (0..MaxStageEpoch) :
          /\ Cardinality(epochs) <= MaxStageBatch
          /\ \E bad \in 0..Cardinality(epochs), hash1 \in SuperblockHashes(cm) :
                LET blocks == [i \in 1..Cardinality(epochs) |->
                                  SyncBlock(Ascending(epochs)[i], i # bad)]
                    started == [IdleCall EXCEPT
                                   !.msg = [blocks |-> blocks, hash1 |-> hash1,
                                            stage |-> "done", ran |-> 0],
                                   !.before = cm.sm_state,
                                   !.op = "AddBlocks",
                                   !.prev = Some(Begin(cm, "AddBlocks"))]
                IN IF add_blocks_waits(cm, blocks)
                   THEN /\ cm' = add_blocks_start(cm, blocks).cm
                        /\ call' = [started EXCEPT
                                        !.msg.stage = add_blocks_start(cm, blocks).stage,
                                        !.op = "waiting"]
                   ELSE /\ cm' = handle_add_blocks(cm, blocks, hash1, OtherSuperblockHash)
                        /\ call' = started

\* what the futures captured when the handler built them
WaitingParts ==
    split_blocks_batch_at_target(Tail(call.msg.blocks),
                                 Unwrap(Unwrap(call.prev).current_epoch),
                                 Unwrap(Unwrap(call.prev).sync_target),
                                 superblock_period)

\* the future that waits has run: the next one waits, or the handling is over
StageRan(staged) ==
    /\ cm' = staged.cm
    /\ call' = [call EXCEPT !.msg.stage = staged.stage,
                            !.msg.ran = @ + 1,
                            !.op = IF staged.stage = "done"
                                   THEN "AddBlocks" ELSE "waiting"]

AddBlocksTargetSuperblock ==
    /\ call.op = "waiting"
    /\ call.msg.stage = "target_superblock"
    /\ StageRan(add_blocks_stage_target_superblock(
                    cm, Unwrap(Unwrap(call.prev).sync_target), call.msg.hash1))

AddBlocksPart2 ==
    /\ call.op = "waiting"
    /\ call.msg.stage = "part_2"
    /\ StageRan(add_blocks_stage_part_2(cm, Unwrap(WaitingParts[2]), WaitingParts[5],
                                        OtherSuperblockHash))

AddBlocksPart3 ==
    /\ call.op = "waiting"
    /\ call.msg.stage = "part_3"
    /\ StageRan(add_blocks_stage_part_3(
                    cm, IF IsSome(WaitingParts[3]) THEN Unwrap(WaitingParts[3]) ELSE <<>>))

StagesNext ==
    \/ StagedEpochNotification
    \/ StagedPeersBeacons
    \/ AddBlocksStart
    \/ AddBlocksTargetSuperblock
    \/ AddBlocksPart2
    \/ AddBlocksPart3
    \/ AddBlocksAnswered

SpecStages == Init /\ [][StagesNext]_vars

\* ------------------------------------------------------------------------
\* Synchronization of a node that is more than one superblock behind: the
\* ticks the node handles are those that open a superblock period
\* ------------------------------------------------------------------------
MaxSyncIndex == 2

EpochNotificationAtSuperblock ==
    /\ \E index \in 0..MaxSyncIndex, ready \in BOOLEAN :
          /\ IsSome(cm.current_epoch) =>
                 index * superblock_period > Unwrap(cm.current_epoch)
          /\ cm' = handle_epoch_notification(cm, index * superblock_period, ready)
    /\ call' = IdleCall

BehindNext ==
    \/ (call.op = "idle" /\ EpochNotificationAtSuperblock)
    \/ (call.op = "idle" /\ PeersBeaconsWhileSyncing)
    \/ (call.op = "idle" /\ AddBlocksRecorded)
    \/ PeersBeaconsAnswered
    \/ AddBlocksAnswered

SpecBehind == Init /\ [][BehindNext]_vars

\* ------------------------------------------------------------------------
\* The actor with the epoch tick on record: the node is driven by epoch
\* ticks, candidates and beacon snapshots, and call keeps the state, the
\* flag, the epoch, the best candidate and the chain state the tick found
\* ------------------------------------------------------------------------
EpochNotificationRecorded ==
    \E checkpoint \in 0..MaxEpoch, ready \in BOOLEAN :
        /\ IsSome(cm.current_epoch) => checkpoint > Unwrap(cm.current_epoch)
        /\ cm' = handle_epoch_notification(cm, checkpoint, ready)
        /\ call' = [IdleCall EXCEPT
                        !.msg = [checkpoint |-> checkpoint, ready |-> ready],
                        !.before = cm.sm_state,
                        !.op = "EpochNotification",
                        !.prev = Some([peers_beacons_received |-> cm.peers_beacons_received,
                                       current_epoch |-> cm.current_epoch,
                                       best_candidate |-> cm.best_candidate,
                                       candidates |-> cm.candidates,
                                       transactions_pool |-> cm.transactions_pool,
                                       chain_state |-> cm.chain_state])]

\* candidates arrive; each carries the epoch during which it was received,
\* which no handler reads
AddCandidatesReceived ==
    /\ \E block \in CandidateBlocks, better \in BOOLEAN :
          cm' = handle_add_candidates(cm,
                    [checkpoint |-> block.checkpoint, hash |-> block.hash,
                     valid |-> block.valid, received |-> cm.current_epoch],
                    better)
    /\ call' = IdleCall

\* the record is cleared before the next message is handled
EpochNotificationDone ==
    /\ call.op = "EpochNotification"
    /\ call' = IdleCall
    /\ UNCHANGED cm

EpochNext ==
    \/ (call.op = "idle" /\ EpochNotificationRecorded)
    \/ (call.op = "idle" /\ PeersBeacons)
    \/ (call.op = "idle" /\ AddCandidatesReceived)
    \/ (call.op = "idle" /\ AddTransaction)
    \/ EpochNotificationDone

SpecEpoch == Init /\ [][EpochNext]_vars

\* ------------------------------------------------------------------------
\* The actor waiting for a block batch that does not come: epoch ticks up to
\* MaxWaitEpoch and beacon snapshots; call keeps the state and the start of
\* the wait that the PeersBeacons handler found
\* ------------------------------------------------------------------------
MaxWaitEpoch == 11

EpochNotificationWhileWaiting ==
    /\ \E checkpoint \in 0..MaxWaitEpoch, ready \in BOOLEAN :
          /\ IsSome(cm.current_epoch) => checkpoint > Unwrap(cm.current_epoch)
          /\ cm' = handle_epoch_notification(cm, checkpoint, ready)
    /\ call' = IdleCall

PeersBeaconsWhileWaiting ==
    /\ IsSome(cm.current_epoch)
    /\ \E len \in 0..MaxSessions :
          \E pb \in PbOfLen(len, NetworkBeacons) :
              cm' = handle_peers_beacons(cm, SessionMsg(pb, MaxSessions)).cm
    /\ call' = [IdleCall EXCEPT
                    !.before = cm.sm_state,
                    !.op = "PeersBeacons",
                    !.prev = Some([sync_waiting_for_add_blocks_since |->
                                       cm.sync_waiting_for_add_blocks_since])]

WaitNext ==
    \/ (call.op = "idle" /\ EpochNotificationWhileWaiting)
    \/ (call.op = "idle" /\ PeersBeaconsWhileWaiting)
    \/ PeersBeaconsAnswered

SpecWait == Init /\ [][WaitNext]_vars

\* ------------------------------------------------------------------------
\* The actor with the requests of the Synced state on record: epoch ticks,
\* candidates, beacon snapshots and the seven requests; call keeps the
\* request, the state, the own outputs and the pool the handler found, and
\* its answer
\* ------------------------------------------------------------------------
SyncedRequestRecorded ==
    \E request \in SyncedRequests, ok \in BOOLEAN :
        LET handled == handle_synced_request(cm, request, ok)
        IN /\ cm' = handled.cm
           /\ call' = [IdleCall EXCEPT
                           !.msg = [request |-> request, ok |-> ok],
                           !.before = cm.sm_state,
                           !.op = "SyncedRequest",
                           !.ret = Some(handled.ret),
                           !.prev = Some([own_utxos |-> cm.own_utxos,
                                          transactions_pool |-> cm.transactions_pool])]

SyncedRequestAnswered ==
    /\ call.op = "SyncedRequest"
    /\ call' = IdleCall
    /\ UNCHANGED cm

RequestsNext ==
    \/ (call.op = "idle" /\ EpochNotification)
    \/ (call.op = "idle" /\ PeersBeacons)
    \/ (call.op = "idle" /\ AddCandidates)
    \/ (call.op = "idle" /\ SyncedRequestRecorded)
    \/ SyncedRequestAnswered

SpecRequests == Init /\ [][RequestsNext]_vars

\* ========================================================================
\* Properties of the PeersBeacons methods (checked under SpecConsensus)
\* ========================================================================
\* how many peers of the snapshot report the block beacon b / the superblock
\* beacon sb, and how many of the n slots carry no beacon at all
ReportsBlock(msg, b) ==
    {i \in DOMAIN msg.pb : /\ IsSome(msg.pb[i].beacon)
                           /\ Unwrap(msg.pb[i].beacon).highest_block_checkpoint = b}
ReportsSuper(msg, sb) ==
    {i \in DOMAIN msg.pb : /\ IsSome(msg.pb[i].beacon)
                           /\ Unwrap(msg.pb[i].beacon).highest_superblock_checkpoint = sb}
SilentSlots(msg, n) ==
    Cardinality({i \in DOMAIN msg.pb : IsNone(msg.pb[i].beacon)}) + (n - Len(msg.pb))
AllBlockBeacons == {b.highest_block_checkpoint : b \in ReportedBeacons}
AllSuperBeacons == {b.highest_superblock_checkpoint : b \in ReportedBeacons}
PeersNeeded(n, threshold) == (n * threshold + 99) \div 100

\* the block beacons that win the padded vote: strictly more votes than any
\* other beacon and than the silent slots, and at least threshold percent of n
BlockWinners(msg, n, threshold) ==
    {b \in AllBlockBeacons :
        /\ \A o \in AllBlockBeacons \ {b} :
               Cardinality(ReportsBlock(msg, o)) < Cardinality(ReportsBlock(msg, b))
        /\ SilentSlots(msg, n) < Cardinality(ReportsBlock(msg, b))
        /\ Cardinality(ReportsBlock(msg, b)) * 100 >= threshold * n}

\* C3: block_consensus pads the votes with n - |pb| None votes and returns
\* Some(B) iff B is a real beacon, the single most frequent vote, and
\* count(B) * 100 / n >= threshold; otherwise it returns None.
C3_BlockConsensus ==
    (call.op = "block_consensus" /\ IsSome(call.msg.outbound_limit)) =>
        LET winners == BlockWinners(call.msg, Unwrap(call.msg.outbound_limit), call.threshold)
        IN IF winners = {} THEN call.ret = None
           ELSE \E b \in winners : call.ret = Some(b)

\* C3 witness: 3 of 4 peers agree under outbound_limit 4 and threshold 60
C3_Witness ==
    /\ call.op = "block_consensus"
    /\ call.msg.outbound_limit = Some(4)
    /\ Len(call.msg.pb) = 4
    /\ call.threshold = 60
    /\ Cardinality(ReportsBlock(call.msg, BeaconA)) = 3
    /\ Cardinality(ReportsBlock(call.msg, BeaconB)) = 1
    /\ call.ret = Some(BeaconA)

\* C4: superblock_consensus reports a consensus only if the winning
\* superblock beacon fills at least ceil(n * threshold / 100) of the n slots;
\* with fewer than that many peers in pb it returns None; the superblock
\* beacon of the returned LastBeacon is the winning value.
C4_SuperblockThreshold ==
    (call.op = "superblock_consensus" /\ IsSome(call.msg.outbound_limit)) =>
        LET n == Unwrap(call.msg.outbound_limit)
            needed == PeersNeeded(n, call.threshold)
        IN /\ Len(call.msg.pb) < needed => call.ret = None
           /\ IsSome(call.ret) =>
                LET sb == Unwrap(call.ret)[1].highest_superblock_checkpoint
                    votes == Cardinality(ReportsSuper(call.msg, sb))
                IN /\ votes >= needed
                   /\ votes > SilentSlots(call.msg, n)
                   /\ \A o \in AllSuperBeacons \ {sb} :
                          Cardinality(ReportsSuper(call.msg, o)) < votes

\* C4 witness: exactly the needed 3 of 5 slots report the winner
C4_Witness ==
    /\ call.op = "superblock_consensus"
    /\ call.msg.outbound_limit = Some(5)
    /\ call.threshold = 60
    /\ Cardinality(ReportsSuper(call.msg, SuperA)) = 3
    /\ IsSome(call.ret)
    /\ Unwrap(call.ret)[1].highest_superblock_checkpoint = SuperA

\* the peers voting for the winning superblock beacon, and among them the
\* supporters of the block beacon b
MatchingPeers(msg, ret) == ReportsSuper(msg, Unwrap(ret)[1].highest_superblock_checkpoint)
MatchingFor(msg, ret, b) == MatchingPeers(msg, ret) \cap ReportsBlock(msg, b)
UniqueModeAmongMatching(msg, ret, b) ==
    \A o \in AllBlockBeacons \ {b} :
        Cardinality(MatchingFor(msg, ret, o)) < Cardinality(MatchingFor(msg, ret, b))
MajorityAmongMatching(msg, ret, threshold) ==
    LET b == Unwrap(ret)[1].highest_block_checkpoint
    IN Unwrap(ret)[2] <=>
          /\ UniqueModeAmongMatching(msg, ret, b)
          /\ Cardinality(MatchingFor(msg, ret, b)) * 100
                >= threshold * Cardinality(MatchingPeers(msg, ret))

\* C5 (as claimed): the returned block beacon is the most frequent one among
\* the matching peers, and is_block_majority holds iff it is the unique mode
\* with at least threshold percent of the matching peers.
C5_Original ==
    (call.op = "superblock_consensus" /\ IsSome(call.ret)) =>
        LET b == Unwrap(call.ret)[1].highest_block_checkpoint
        IN /\ \A o \in AllBlockBeacons :
                  Cardinality(MatchingFor(call.msg, call.ret, o))
                      <= Cardinality(MatchingFor(call.msg, call.ret, b))
           /\ MajorityAmongMatching(call.msg, call.ret, call.threshold)

\* C5 (amended): the returned block beacon is the unique mode among the
\* matching peers when there is one, and otherwise (a tie for the top) the
\* block beacon of the first matching peer in pb order, which need not be a
\* most frequent one; is_block_majority holds iff the returned beacon is the
\* unique mode with at least threshold percent of the matching peers.
C5_ConditionalBlock ==
    (call.op = "superblock_consensus" /\ IsSome(call.ret)) =>
        LET b == Unwrap(call.ret)[1].highest_block_checkpoint
            modes == {o \in AllBlockBeacons : UniqueModeAmongMatching(call.msg, call.ret, o)}
            first == CHOOSE i \in MatchingPeers(call.msg, call.ret) :
                         \A j \in MatchingPeers(call.msg, call.ret) : i <= j
        IN /\ IF modes # {} THEN b \in modes
              ELSE b = Unwrap(call.msg.pb[first].beacon).highest_block_checkpoint
           /\ MajorityAmongMatching(call.msg, call.ret, call.threshold)

\* C5 witness: a tie for the top whose first matching peer reports a beacon
\* that is not among the most frequent ones
C5_Witness ==
    /\ call.op = "superblock_consensus"
    /\ IsSome(call.ret)
    /\ Unwrap(call.ret)[2] = FALSE
    /\ \E o \in AllBlockBeacons :
          Cardinality(MatchingFor(call.msg, call.ret, o))
              > Cardinality(MatchingFor(call.msg, call.ret,
                                        Unwrap(call.ret)[1].highest_block_checkpoint))

\* C6: when one more peer reports exactly the LastBeacon that
\* superblock_consensus returned, superblock_consensus returns that
\* LastBeacon again.
C6_ConsensusStable ==
    call.op = "superblock_consensus_again" =>
        /\ IsSome(call.ret)
        /\ Unwrap(call.ret)[1] = Unwrap(call.prev)[1]

\* C6 witness: the consensus was a tie-break (no block majority) before the
\* extra peer joined
C6_Witness ==
    /\ call.op = "superblock_consensus_again"
    /\ Unwrap(call.prev)[2] = FALSE
    /\ IsSome(call.ret)
    /\ Len(call.msg.pb) >= 3

\* C7: decide_peers_to_unregister(B) returns, once each and in pb order,
\* exactly the peers that reported a block beacon other than B or no beacon.
C7_UnregisterComplete ==
    call.op = "decide_peers_to_unregister" =>
        LET bad == {i \in DOMAIN call.msg.pb :
                       \/ IsNone(call.msg.pb[i].beacon)
                       \/ Unwrap(call.msg.pb[i].beacon).highest_block_checkpoint # call.beacon}
            nth(k) == CHOOSE i \in bad : Cardinality({j \in bad : j < i}) = k - 1
        IN /\ Len(call.ret) = Cardinality(bad)
           /\ \A k \in 1..Len(call.ret) : call.ret[k] = call.msg.pb[nth(k)].peer

\* C7 witness: a snapshot with an agreeing peer, a disagreeing one and a
\* silent one
C7_Witness ==
    /\ call.op = "decide_peers_to_unregister"
    /\ Len(call.ret) = 2
    /\ Len(call.msg.pb) = 3
    /\ IsNone(call.msg.pb[3].beacon)
    /\ IsSome(call.msg.pb[2].beacon)
    /\ Unwrap(call.msg.pb[2].beacon).highest_block_checkpoint = call.beacon

\* ========================================================================
\* Properties of the state machine (checked under Spec)
\* ========================================================================
\* the last handler was PeersBeacons and found a consensus on this block beacon
ConsensusBlockOfLastHandler ==
    Unwrap(cm.fx.consensus)[1].highest_block_checkpoint

\* C1: sm_state becomes Synced only inside the PeersBeacons handler, only
\* when the state before that handler was AlmostSynced, and only when the
\* consensus block beacon equals the node's own highest block beacon; no
\* epoch tick, AddBlocks, AddCandidates or request sets the state to Synced.
C1_SyncedOnlyFromAlmostSynced ==
    [][(cm.sm_state # "Synced" /\ cm'.sm_state = "Synced") =>
          /\ cm'.fx.handler = "PeersBeacons"
          /\ cm.sm_state = "AlmostSynced"
          /\ IsSome(cm'.fx.consensus)
          /\ Unwrap(cm'.fx.consensus)[1].highest_block_checkpoint
                 = get_chain_beacon(cm)]_vars

\* C1 witness: the PeersBeacons handler has just moved the node to Synced on
\* a consensus that is its own beacon
C1_Witness ==
    /\ cm.sm_state = "Synced"
    /\ cm.fx.handler = "PeersBeacons"
    /\ cm.fx.replayed = 1
    /\ IsSome(cm.fx.consensus)
    /\ ConsensusBlockOfLastHandler = get_chain_beacon(cm)
    /\ get_chain_beacon(cm) = BeaconA

\* C2: the deferred superblock votes are replayed exactly once in the
\* handling that moves the node from AlmostSynced to Synced, and not at all
\* in any other handling: not by PeersBeacons with the consensus on our
\* beacon while already Synced, and not by any other event.
C2_ReplayOncePerTransition ==
    [][cm'.fx.replayed =
          IF cm.sm_state = "AlmostSynced" /\ cm'.sm_state = "Synced"
          THEN 1 ELSE 0]_vars

\* C2 witness: PeersBeacons found the consensus on our beacon while the node
\* was already Synced, and replayed nothing
C2_Witness ==
    /\ cm.sm_state = "Synced"
    /\ cm.fx.handler = "PeersBeacons"
    /\ IsSome(cm.fx.consensus)
    /\ ConsensusBlockOfLastHandler = get_chain_beacon(cm)
    /\ cm.fx.replayed = 0

\* ========================================================================
\* Properties of the answer of the PeersBeacons handler (checked under
\* SpecPeersBeacons)
\* ========================================================================
Answering == call.op = "PeersBeacons"

\* ret lists, once each, exactly the peers in these slots of the snapshot
ListsExactly(ret, msg, slots) ==
    /\ Len(ret) = Cardinality(slots)
    /\ Range(ret) = {msg.pb[i].peer : i \in slots}

\* the slots whose peer reported another block / superblock beacon, or none
NotReportingBlock(msg, b) == DOMAIN msg.pb \ ReportsBlock(msg, b)
NotReportingSuper(msg, sb) == DOMAIN msg.pb \ ReportsSuper(msg, sb)
Silent(msg) == {i \in DOMAIN msg.pb : IsNone(msg.pb[i].beacon)}

\* the unregister policy with a consensus: by block beacon under a block
\* majority, else by superblock beacon
ConsensusPolicy ==
    LET consensus == Unwrap(cm.fx.consensus)
    IN IF consensus[2]
       THEN ListsExactly(call.ret, call.msg,
                NotReportingBlock(call.msg, consensus[1].highest_block_checkpoint))
       ELSE ListsExactly(call.ret, call.msg,
                NotReportingSuper(call.msg, consensus[1].highest_superblock_checkpoint))

WasInSync == call.before = "AlmostSynced" \/ call.before = "Synced"

C9_TooFewPeersUnregisterNobody ==
    (/\ Answering
     /\ IsNone(cm.fx.consensus)
     /\ Len(call.msg.pb) < PeersNeeded(Unwrap(call.msg.outbound_limit), consensus_c))
        => call.ret = <<>>

\* C10: whenever the handler finds no consensus, |pb| is at least the peers
\* needed for consensus and the state is AlmostSynced or Synced, it answers
\* exactly the peers whose block beacon differs from the node's own highest
\* block beacon, or who reported none.
C10_InSyncUnregisterDisagreeing ==
    (/\ Answering
     /\ IsNone(cm.fx.consensus)
     /\ Len(call.msg.pb) >= PeersNeeded(Unwrap(call.msg.outbound_limit), consensus_c)
     /\ WasInSync)
        => ListsExactly(call.ret, call.msg, NotReportingBlock(call.msg, call.beacon))

WasOutOfSync == call.before = "WaitingConsensus" \/ call.before = "Synchronizing"

\* C11: whenever the handler finds no consensus, |pb| is at least the peers
\* needed for consensus and the state is WaitingConsensus or Synchronizing,
\* the list it answers contains every peer of pb.
C11_OutOfSyncUnregisterAll ==
    (/\ Answering
     /\ IsNone(cm.fx.consensus)
     /\ Len(call.msg.pb) >= PeersNeeded(Unwrap(call.msg.outbound_limit), consensus_c)
     /\ WasOutOfSync)
        => ListsExactly(call.ret, call.msg, DOMAIN call.msg.pb)

\* C11 witness: a Synchronizing node hears two of its three outbound peers,
\* who disagree on the superblock, and unregisters both
C11_Witness ==
    /\ Answering
    /\ call.before = "Synchronizing"
    /\ IsNone(cm.fx.consensus)
    /\ Len(call.msg.pb) = 2
    /\ Silent(call.msg) = {}
    /\ Len(call.ret) = 2

\* ========================================================================
\* Properties of split_blocks_batch_at_target (checked under SpecSplit)
\* ========================================================================
Split == call.op = "split_blocks_batch_at_target"

\* part k of the answer as a list, a None part read as empty
Part(k) ==
    IF k = 1 THEN call.ret[1]
    ELSE IF IsSome(call.ret[k]) THEN Unwrap(call.ret[k]) ELSE <<>>

\* the first epoch of part k: (SB* + k - 2) * p
FirstEpoch(k) == (call.sync_target.superblock.checkpoint + (k - 2)) * call.period

EpochsOf(part) == {part[i].checkpoint : i \in DOMAIN part}

\* C12: the parts concatenated, P1 ++ P2 ++ P3 ++ P4, are the input in
\* order, and every block lies in the interval of its part: P1 below SB*p,
\* P2 in [SB*p, (SB*+1)p), P3 in [(SB*+1)p, (SB*+2)p), P4 from (SB*+2)p on.
C12_SplitCoverage ==
    Split =>
        /\ Part(1) \o Part(2) \o Part(3) \o Part(4) = call.blocks
        /\ \A e \in EpochsOf(Part(1)) : e < FirstEpoch(2)
        /\ \A e \in EpochsOf(Part(2)) : FirstEpoch(2) <= e /\ e < FirstEpoch(3)
        /\ \A e \in EpochsOf(Part(3)) : FirstEpoch(3) <= e /\ e < FirstEpoch(4)
        /\ \A e \in EpochsOf(Part(4)) : FirstEpoch(4) <= e

\* C12 witness: a batch with a block in each of the four parts
C12_Witness ==
    /\ Split
    /\ \A k \in 1..4 : Len(Part(k)) = 1
    /\ call.period = 2
    /\ call.sync_target.superblock.checkpoint = 1

\* C13: for each threshold t among SB*p, (SB*+1)p, (SB*+2)p, if the part
\* before t is not empty and its last block has epoch t - 1, the part that
\* starts at t is Some, and Some of the empty list when no block of the
\* batch has an epoch of t or more.
C13_SplitEdges ==
    Split =>
        \A k \in 2..4 :
            (/\ Len(Part(k - 1)) > 0
             /\ Part(k - 1)[Len(Part(k - 1))].checkpoint = FirstEpoch(k) - 1)
                => /\ IsSome(call.ret[k])
                   /\ (\A e \in EpochsOf(call.blocks) : e < FirstEpoch(k))
                          => call.ret[k] = Some(<<>>)

\* C13 witness: the batch ends with the last epoch of part 3, and part 4 is
\* Some of the empty list
C13_Witness ==
    /\ Split
    /\ Len(Part(3)) > 0
    /\ Part(3)[Len(Part(3))].checkpoint = FirstEpoch(4) - 1
    /\ call.ret[4] = Some(<<>>)
    /\ Len(Part(2)) > 0

\* C14: nextIndex is None iff floor(e / p) is the checkpoint of the target
\* superblock, and Some(floor(e / p)) otherwise, whatever the batch holds.
C14_NextIndex ==
    Split =>
        call.ret[5] = IF call.epoch \div call.period = call.sync_target.superblock.checkpoint
                      THEN None
                      ELSE Some(call.epoch \div call.period)

\* C14 witness: the current epoch lies in the superblock of the target, and
\* the batch has blocks beyond it
C14_Witness ==
    /\ Split
    /\ call.ret[5] = None
    /\ call.epoch > 0
    /\ Len(Part(3)) > 0

\* ========================================================================
\* Properties of single handlings (checked under Spec): the step is the
\* handling named in cm'.fx.handler, cm is the actor before it and cm' after
\* ========================================================================
HandlingPeersBeacons == cm'.fx.handler = "PeersBeacons"
HandlingEpochNotification == cm'.fx.handler = "EpochNotification"
HandlingAddBlocks == cm'.fx.handler = "AddBlocks"

\* the consensus block beacon the PeersBeacons handling of this step found
ConsensusBlockOfStep == Unwrap(cm'.fx.consensus)[1].highest_block_checkpoint

HoldsCandidate(hash) == \E held \in cm.candidates : held.hash = hash

\* PeersBeacons handled in WaitingConsensus with a consensus B* that is not
\* the bootstrap one, is not our beacon and names no held candidate
WaitingAndBehind ==
    /\ HandlingPeersBeacons
    /\ cm.sm_state = "WaitingConsensus"
    /\ IsSome(cm'.fx.consensus)
    /\ ConsensusBlockOfStep.hash_prev_block # BootstrapHash
    /\ ConsensusBlockOfStep # get_chain_beacon(cm)
    /\ ~HoldsCandidate(ConsensusBlockOfStep.hash_prev_block)

StartsSynchronizing ==
    /\ cm'.sm_state = "Synchronizing"
    /\ cm'.fx.requests = 1
    /\ cm'.sync_waiting_for_add_blocks_since = cm.current_epoch

\* C15 (as claimed): PeersBeacons handled in WaitingConsensus with a
\* consensus B* whose hash is not the bootstrap hash, that differs from our
\* beacon and names no held candidate makes the state Synchronizing, emits
\* exactly one request for the next batch and records the current epoch in
\* sync_waiting_for_add_blocks_since.
C15_Original == [][WaitingAndBehind => StartsSynchronizing]_vars

\* C15 (amended): the same, provided B* is not a fork of our beacon (it has
\* another epoch than our beacon); a B* of our epoch with another hash
\* restores the chain state and leaves the node in WaitingConsensus.
C15_WaitingToSynchronizing ==
    [][(WaitingAndBehind /\ ~IsFork(get_chain_beacon(cm), ConsensusBlockOfStep))
          => StartsSynchronizing]_vars

\* C15 witness: the handling has just sent the node synchronizing after a
\* target ahead of its chain, with one request and the wait started now
C15_Witness ==
    /\ cm.fx.handler = "PeersBeacons"
    /\ cm.sm_state = "Synchronizing"
    /\ cm.fx.requests = 1
    /\ cm.sync_waiting_for_add_blocks_since = cm.current_epoch
    /\ IsSome(cm.sync_target)
    /\ Unwrap(cm.sync_target).block = BeaconA
    /\ get_chain_beacon(cm) = BeaconBoot
    /\ cm.candidates = {}

\* the handling made a held candidate named by the consensus the new tip
ConsolidatesConsensusCandidate ==
    \E held \in cm.candidates :
        /\ held.hash = ConsensusBlockOfStep.hash_prev_block
        /\ get_chain_beacon(cm') = CheckpointBeacon(held.checkpoint, held.hash)
        /\ get_chain_beacon(cm') # get_chain_beacon(cm)

\* the handling tried a held candidate named by the consensus and it failed
\* the validations
FailsConsensusCandidate ==
    /\ IsSome(cm'.fx.consensus)
    /\ ConsensusBlockOfStep.hash_prev_block # BootstrapHash
    /\ ConsensusBlockOfStep # get_chain_beacon(cm)
    /\ ~IsFork(get_chain_beacon(cm), ConsensusBlockOfStep)
    /\ \E held \in cm.candidates :
           held.hash = ConsensusBlockOfStep.hash_prev_block /\ ~held.valid

\* C16: PeersBeacons handled in WaitingConsensus makes the state
\* AlmostSynced iff the consensus block beacon is not the bootstrap one and
\* either equals our beacon or names a held candidate that the handling
\* consolidates; when the held candidate fails to consolidate the state is
\* not AlmostSynced.
C16_WaitingToAlmostSynced ==
    [][(HandlingPeersBeacons /\ cm.sm_state = "WaitingConsensus") =>
          /\ (cm'.sm_state = "AlmostSynced") <=>
                 (/\ IsSome(cm'.fx.consensus)
                  /\ ConsensusBlockOfStep.hash_prev_block # BootstrapHash
                  /\ \/ ConsensusBlockOfStep = get_chain_beacon(cm)
                     \/ ConsolidatesConsensusCandidate)
          /\ FailsConsensusCandidate => cm'.sm_state # "AlmostSynced"]_vars

\* C16 witness: the handling consolidated the candidate of the consensus: the
\* node is AlmostSynced on a tip that its storage does not hold yet
C16_Witness ==
    /\ cm.fx.handler = "PeersBeacons"
    /\ cm.sm_state = "AlmostSynced"
    /\ IsSome(cm.fx.consensus)
    /\ ConsensusBlockOfLastHandler = BeaconA
    /\ get_chain_beacon(cm) = BeaconA
    /\ cm.storage.highest_block_checkpoint = BeaconBoot
    /\ cm.candidates = {}
    /\ cm.sync_waiting_for_add_blocks_since = None

\* PeersBeacons handled in WaitingConsensus or Synchronizing with a consensus
\* block beacon of the epoch of our beacon and another hash
ForkSeen ==
    /\ HandlingPeersBeacons
    /\ cm.sm_state = "WaitingConsensus" \/ cm.sm_state = "Synchronizing"
    /\ IsSome(cm'.fx.consensus)
    /\ IsFork(get_chain_beacon(cm), ConsensusBlockOfStep)

RestoredAndWaiting ==
    /\ cm'.fx.restored
    /\ cm'.chain_state = cm.storage
    /\ cm'.sm_state = "WaitingConsensus"

\* C17 (as claimed): whenever PeersBeacons is handled in WaitingConsensus or
\* Synchronizing and the consensus block beacon has the epoch of our highest
\* block beacon but another hash, the chain state is restored from storage
\* and the state after the handling is WaitingConsensus.
C17_Original == [][ForkSeen => RestoredAndWaiting]_vars

\* C17 (amended): the same, except for a node in WaitingConsensus that hears
\* the bootstrap beacon as consensus: it stays in WaitingConsensus without
\* restoring the chain state, also when its own beacon is of epoch 0.
C17_ForkRestores ==
    [][ForkSeen =>
          IF /\ cm.sm_state = "WaitingConsensus"
             /\ ConsensusBlockOfStep.hash_prev_block = BootstrapHash
          THEN /\ ~cm'.fx.restored
               /\ cm'.chain_state = cm.chain_state
               /\ cm'.sm_state = "WaitingConsensus"
          ELSE RestoredAndWaiting]_vars

\* C17 witness: a fork was seen, and the chain state is the stored one again
C17_Witness ==
    /\ cm.fx.handler = "PeersBeacons"
    /\ cm.fx.restored
    /\ cm.sm_state = "WaitingConsensus"
    /\ cm.chain_state = cm.storage
    /\ IsSome(cm.fx.consensus)
    /\ ConsensusBlockOfLastHandler = BeaconB

\* ========================================================================
\* Properties of the AddBlocks handler (checked under SpecAddBlocks)
\* ========================================================================
SyncingAddBlocks == call.op = "AddBlocks" /\ call.before = "Synchronizing"

\* what the handler found, and the split of what it was sent
Found == Unwrap(call.prev)
FoundTarget == Unwrap(Found.sync_target)
SentParts ==
    split_blocks_batch_at_target(Tail(call.msg.blocks), Unwrap(Found.current_epoch),
                                 FoundTarget, superblock_period)

HasInvalid(blocks) == \E i \in 1..Len(blocks) : ~blocks[i].valid

EmptyBatch == SyncingAddBlocks /\ call.msg.blocks = <<>>

FailsPart1 ==
    /\ SyncingAddBlocks
    /\ call.msg.blocks # <<>>
    /\ HasInvalid(SentParts[1])

TargetReached ==
    /\ SyncingAddBlocks
    /\ call.msg.blocks # <<>>
    /\ ~HasInvalid(SentParts[1])
    /\ IsSome(SentParts[2])

SuperblockMismatch ==
    /\ TargetReached
    /\ FoundTarget.superblock.checkpoint # Found.superblock_state.checkpoint
    /\ call.msg.hash1 # FoundTarget.superblock.hash_prev_block

FailsPart2 ==
    /\ TargetReached
    /\ ~SuperblockMismatch
    /\ HasInvalid(Unwrap(SentParts[2]))

FailsPart3 ==
    /\ TargetReached
    /\ ~SuperblockMismatch
    /\ ~HasInvalid(Unwrap(SentParts[2]))
    /\ IsSome(SentParts[3])
    /\ HasInvalid(Unwrap(SentParts[3]))

NoConsensusWhileSynchronizing ==
    /\ call.op = "PeersBeacons"
    /\ call.before = "Synchronizing"
    /\ IsNone(cm.fx.consensus)

\* C18: while the state is Synchronizing, an AddBlocks with an empty batch,
\* an AddBlocks with an invalid block in part 1, 2 or 3 of its batch, a
\* constructed target superblock whose hash is not the one of the target,
\* and a PeersBeacons without consensus each leave the node in
\* WaitingConsensus.
C18_SynchronizingToWaiting ==
    (\/ EmptyBatch
     \/ FailsPart1
     \/ SuperblockMismatch
     \/ FailsPart2
     \/ FailsPart3
     \/ NoConsensusWhileSynchronizing) => cm.sm_state = "WaitingConsensus"

\* C18 witness: the batch reached the target, the superblock matched, part 2
\* was valid and a block of part 3 was not
C18_Witness == FailsPart3 /\ cm.sm_state = "WaitingConsensus"

\* ========================================================================
\* Properties of the epoch tick (checked under SpecEpoch)
\* ========================================================================
Ticked == call.op = "EpochNotification"

\* what the tick found
TickFound == Unwrap(call.prev)

\* the tick is not the one after the previously notified epoch
MissedEpoch ==
    /\ IsSome(TickFound.current_epoch)
    /\ Unwrap(cm.current_epoch) - Unwrap(TickFound.current_epoch) # 1

\* C19: an epoch tick leaves the node in WaitingConsensus whenever
\* peers_beacons_received was false at the tick or the epoch of the tick is
\* not the previously notified epoch plus one, whatever the state was; a
\* consecutive tick that finds peers_beacons_received true leaves sm_state
\* as it was.
C19_TickToWaiting ==
    Ticked =>
        IF ~TickFound.peers_beacons_received \/ MissedEpoch
        THEN cm.sm_state = "WaitingConsensus"
        ELSE cm.sm_state = call.before

\* C19 witness: a Synced node with the beacons of the epoch received misses
\* an epoch and waits for consensus again
C19_Witness ==
    /\ Ticked
    /\ call.before = "Synced"
    /\ TickFound.peers_beacons_received
    /\ MissedEpoch
    /\ cm.sm_state = "WaitingConsensus"

\* C20: after an epoch tick handled in Synced with peers_beacons_received
\* false, the state is WaitingConsensus, the candidate set is empty, the
\* best candidate held before the tick was not consolidated by the tick, and
\* the last beacon went to the sessions layer in one broadcast with
\* only_inbound = true.
C20_SyncedTickWithoutBeacons ==
    (Ticked /\ call.before = "Synced" /\ ~TickFound.peers_beacons_received) =>
        /\ cm.sm_state = "WaitingConsensus"
        /\ cm.candidates = {}
        /\ IsNone(cm.fx.consolidated)
        /\ cm.chain_state = TickFound.chain_state
        /\ cm.fx.broadcast_inbound = 1

\* C20 witness: the Synced node held a best candidate when the tick came
C20_Witness ==
    /\ Ticked
    /\ call.before = "Synced"
    /\ ~TickFound.peers_beacons_received
    /\ IsSome(TickFound.best_candidate)
    /\ cm.sm_state = "WaitingConsensus"
    /\ cm.fx.broadcast_inbound = 1

\* the tick found the flag false or missed an epoch: it waits for consensus
TickRegressed == ~TickFound.peers_beacons_received \/ MissedEpoch

\* the tick went through the arm of AlmostSynced and Synced to its end
TickInSyncAndReady ==
    /\ ~TickRegressed
    /\ call.before = "AlmostSynced" \/ call.before = "Synced"
    /\ call.msg.ready

AllCleared ==
    /\ cm.transactions_pool.pending = {}
    /\ cm.transactions_pool.co = {}
    /\ cm.candidates = {}

\* C21 (as claimed): every epoch tick, in every state, ends with the
\* pending-transactions index cleared, the commit transactions cleared and
\* the candidate set empty.
C21_Original == Ticked => AllCleared

\* C21 (amended): every epoch tick ends with the pending-transactions index
\* cleared. The commit transactions are cleared only by a tick that stays in
\* AlmostSynced or Synced with the chain ready, and are otherwise as the tick
\* found them. The candidate set is empty after such a tick and after a tick
\* that found peers_beacons_received false, and is otherwise as the tick
\* found it.
C21_TickClears ==
    Ticked =>
        /\ cm.transactions_pool.pending = {}
        /\ cm.transactions_pool.co =
               IF TickInSyncAndReady THEN {} ELSE TickFound.transactions_pool.co
        /\ cm.candidates =
               IF TickInSyncAndReady \/ ~TickFound.peers_beacons_received
               THEN {} ELSE TickFound.candidates

\* C21 witness: a Synced node holding a pending transaction, a commit and a
\* candidate is ticked and holds none of them afterwards
C21_Witness ==
    /\ Ticked
    /\ call.before = "Synced"
    /\ TickInSyncAndReady
    /\ TickFound.transactions_pool.pending # {}
    /\ TickFound.transactions_pool.co # {}
    /\ TickFound.candidates # {}
    /\ AllCleared

\* ========================================================================
\* peers_beacons_received (checked under SpecPeersBeacons)
\* ========================================================================
\* C22: peers_beacons_received is false after every epoch tick, on every
\* exit path of the handler, and a step makes it true only by handling a
\* PeersBeacons message whose pb is not empty.
C22_PeersBeaconsReceived ==
    [][/\ cm'.fx.handler = "EpochNotification" => ~cm'.peers_beacons_received
       /\ (~cm.peers_beacons_received /\ cm'.peers_beacons_received) =>
              /\ call'.op = "PeersBeacons"
              /\ call'.msg.pb # <<>>]_vars

\* C22 witness: the tick of a node in sync left by the exit for a chain that
\* is not ready (nothing was broadcast), after beacons had been received
C22_Witness ==
    /\ cm.fx.handler = "EpochNotification"
    /\ cm.sm_state = "Synced"
    /\ cm.fx.broadcast_inbound = 0
    /\ ~cm.peers_beacons_received

\* the tick consolidated the best candidate it found
ConsolidatedByTick == Ticked /\ IsSome(cm.fx.consolidated)

\* the candidate was received before the epoch the tick found, so it was
\* already held when an earlier tick was handled
HeldAcrossEarlierTick(block) == block.received # TickFound.current_epoch

\* C23 (as claimed): a candidate, the best candidate included, that the node
\* holds when an epoch tick is handled is consolidated or discarded by that
\* tick: no tick consolidates a candidate that was already held before an
\* earlier tick.
C23_NoStaleConsolidation ==
    ConsolidatedByTick => ~HeldAcrossEarlierTick(Unwrap(TickFound.best_candidate))

\* a tick that found peers_beacons_received false left the best candidate
\* in place, and a later tick consolidated it
C23_StaleConsolidated ==
    /\ ConsolidatedByTick
    /\ HeldAcrossEarlierTick(Unwrap(TickFound.best_candidate))
    /\ get_chain_beacon(cm).hash_prev_block = Unwrap(TickFound.best_candidate).hash

\* ========================================================================
\* The timeout of the wait for a block batch (checked under SpecWait)
\* ========================================================================
\* a PeersBeacons handling that ended in Synchronizing
EndsSynchronizing == call.op = "PeersBeacons" /\ cm.sm_state = "Synchronizing"

\* the start of the wait that the timeout rule read: the one the handler
\* found if the node was synchronizing, the one this handling recorded if not
WaitFound == Unwrap(call.prev).sync_waiting_for_add_blocks_since

TimedOut ==
    /\ IsSome(WaitFound)
    /\ Unwrap(cm.current_epoch) - Unwrap(WaitFound)
           >= how_many_epochs_are_we_willing_to_wait_for_one_block_batch

\* C24: when a PeersBeacons handling ends in Synchronizing, the batch is
\* requested again in that handling iff current_epoch - s >= 10 for the
\* start s of the wait; the handling that enters Synchronizing records
\* s = current_epoch and issues exactly one request.
C24_TimeoutRule ==
    EndsSynchronizing =>
        IF call.before = "Synchronizing"
        THEN /\ cm.fx.requests = (IF TimedOut THEN 1 ELSE 0)
             /\ cm.sync_waiting_for_add_blocks_since =
                    (IF TimedOut THEN cm.current_epoch ELSE WaitFound)
        ELSE /\ cm.fx.requests = 1
             /\ cm.sync_waiting_for_add_blocks_since = cm.current_epoch

\* C24 witness: the node has waited for exactly ten epochs and asks again
C24_Witness ==
    /\ EndsSynchronizing
    /\ call.before = "Synchronizing"
    /\ IsSome(WaitFound)
    /\ Unwrap(cm.current_epoch) - Unwrap(WaitFound) = 10
    /\ cm.fx.requests = 1

\* ========================================================================
\* The requests of the Synced state (checked under SpecRequests)
\* ========================================================================
RequestedOutOfSync == call.op = "SyncedRequest" /\ call.before # "Synced"

\* C25: in every state other than Synced, BuildVtt, BuildDrt, GetBalance,
\* GetUtxoInfo, GetReputation, GetReputationAll and GetReputationStatus fail
\* with NotSynced carrying the current state, also when the reputation
\* engine is absent, and leave the own outputs, the transactions pool and
\* sm_state unchanged.
C25_NotSynced ==
    RequestedOutOfSync =>
        /\ call.ret = Some(NotSynced(call.before))
        /\ cm.own_utxos = Unwrap(call.prev).own_utxos
        /\ cm.transactions_pool = Unwrap(call.prev).transactions_pool
        /\ cm.sm_state = call.before

\* C25 witness: a node that built a transaction while Synced and fell back
\* to AlmostSynced is asked for a reputation it has no engine for
C25_Witness ==
    /\ RequestedOutOfSync
    /\ call.before = "AlmostSynced"
    /\ call.msg.request = "GetReputation"
    /\ ~call.msg.ok
    /\ cm.own_utxos = 1
    /\ call.ret = Some(NotSynced("AlmostSynced"))

\* ========================================================================
\* AddBlocks outside Synchronizing (checked under SpecAddBlocks)
\* ========================================================================
OnlyGenesis(blocks) == Len(blocks) = 1 /\ blocks[1].hash = GenesisHash

\* an AddBlocks message that finds the node out of Synchronizing and is not
\* the genesis block sent to a waiting node
AddBlocksOutOfSynchronizing ==
    /\ call.op = "AddBlocks"
    /\ \/ call.before = "AlmostSynced"
       \/ call.before = "Synced"
       \/ call.before = "WaitingConsensus" /\ ~OnlyGenesis(call.msg.blocks)

\* C26: an AddBlocks message handled in AlmostSynced or Synced, or in
\* WaitingConsensus with a batch that is not exactly the genesis block,
\* processes no block, leaves the chain state and sm_state unchanged,
\* constructs no superblock and requests no batch.
C26_NoSyncWork ==
    AddBlocksOutOfSynchronizing =>
        /\ cm.chain_state = Found.chain_state
        /\ cm.storage = Found.storage
        /\ cm.sm_state = call.before
        /\ cm.fx.requests = 0
        /\ cm.fx.superblocks = <<>>
        /\ ~cm.fx.restored

\* C26 witness: a Synced node is sent a batch of valid blocks
C26_Witness ==
    /\ AddBlocksOutOfSynchronizing
    /\ call.before = "Synced"
    /\ Len(call.msg.blocks) > 1
    /\ ~HasInvalid(call.msg.blocks)
    /\ cm.sm_state = "Synced"

\* ========================================================================
\* sync_target (checked under Spec)
\* ========================================================================
\* PeersBeacons handled in WaitingConsensus or Synchronizing with a consensus
ConsensusOutOfSync ==
    /\ HandlingPeersBeacons
    /\ cm.sm_state = "WaitingConsensus" \/ cm.sm_state = "Synchronizing"
    /\ IsSome(cm'.fx.consensus)

\* the consensus (block, superblock) pair of the step
ConsensusTargetOfStep ==
    SyncTarget(Unwrap(cm'.fx.consensus)[1].highest_block_checkpoint,
               Unwrap(cm'.fx.consensus)[1].highest_superblock_checkpoint)

\* C27 (as claimed): sync_target is set to the consensus pair whenever
\* PeersBeacons reaches consensus in WaitingConsensus or Synchronizing, and
\* there is no target after a step that takes the node from Synchronizing
\* back to WaitingConsensus: without consensus, with the target reached, or
\* with the synchronization abandoned.
C27_Original ==
    [][/\ ConsensusOutOfSync => cm'.sync_target = Some(ConsensusTargetOfStep)
       /\ (cm.sm_state = "Synchronizing" /\ cm'.sm_state = "WaitingConsensus") =>
              IsNone(cm'.sync_target)]_vars

\* C27 (amended): sync_target is set to the consensus pair whenever
\* PeersBeacons reaches consensus in WaitingConsensus or Synchronizing; no
\* other step changes it, so a target once set is never cleared and the
\* node keeps the last one when it returns to WaitingConsensus.
C27_TargetSetNeverCleared ==
    [][/\ ConsensusOutOfSync => cm'.sync_target = Some(ConsensusTargetOfStep)
       /\ ~ConsensusOutOfSync => cm'.sync_target = cm.sync_target]_vars

\* C27 witness: the batch reached the target, the node waits for consensus
\* again and still has the target
C27_Witness ==
    /\ cm.fx.handler = "AddBlocks"
    /\ cm.sm_state = "WaitingConsensus"
    /\ IsSome(cm.sync_target)
    /\ get_chain_beacon(cm) = Unwrap(cm.sync_target).block

\* ========================================================================
\* Blocks of a batch and storage (checked under SpecAddBlocks)
\* ========================================================================
\* the batch was processed to its end: no block of it was invalid and the
\* target superblock, if one was constructed, was the one of the target
BatchSucceeded ==
    /\ SyncingAddBlocks
    /\ IsSome(Found.sync_target)
    /\ call.msg.blocks # <<>>
    /\ ~HasInvalid(Tail(call.msg.blocks))
    /\ ~SuperblockMismatch

\* C28: after every AddBlocks batch processed successfully in
\* Synchronizing, every block whose hash was added to the block-hash index
\* has been handed to storage: the blocks of part 1, of part 2 and of
\* part 3, also when there is no next superblock index and when the target
\* superblock needs no construction.
C28_IndexedArePersisted ==
    BatchSucceeded => cm.fx.indexed \subseteq cm.fx.persisted

\* the ways a successful batch leaves indexed blocks out of storage
C28_Part3Unpersisted ==
    /\ BatchSucceeded /\ TargetReached
    /\ \E i \in 1..Len(Unwrap(SentParts[3])) :
          /\ Unwrap(SentParts[3])[i].hash \in cm.fx.indexed
          /\ Unwrap(SentParts[3])[i].hash \notin cm.fx.persisted

C28_Part2Unpersisted ==
    /\ BatchSucceeded /\ TargetReached
    /\ IsNone(SentParts[5])
    /\ \E i \in 1..Len(Unwrap(SentParts[2])) :
          /\ Unwrap(SentParts[2])[i].hash \in cm.fx.indexed
          /\ Unwrap(SentParts[2])[i].hash \notin cm.fx.persisted

C28_Part1Unpersisted ==
    /\ BatchSucceeded /\ TargetReached
    /\ FoundTarget.superblock.checkpoint = Found.superblock_state.checkpoint
    /\ \E i \in 1..Len(SentParts[1]) :
          /\ SentParts[1][i].hash \in cm.fx.indexed
          /\ SentParts[1][i].hash \notin cm.fx.persisted

\* ========================================================================
\* A node in sync that is out of consensus (checked under SpecPeersBeacons)
\* ========================================================================
\* PeersBeacons was handled in Synced or AlmostSynced and found no consensus,
\* or a consensus on a block beacon that is not ours
OutOfConsensusInSync ==
    /\ call.op = "PeersBeacons"
    /\ call.before = "Synced" \/ call.before = "AlmostSynced"
    /\ \/ IsNone(cm.fx.consensus)
       \/ Unwrap(cm.fx.consensus)[1].highest_block_checkpoint # call.beacon

C30_Part1FailureRestores ==
    FailsPart1 =>
        /\ cm.sm_state = "WaitingConsensus"
        /\ cm.fx.restored
        /\ cm.chain_state = Found.storage
        /\ cm.storage = Found.storage
        /\ cm.fx.indexed = {}
        /\ cm.fx.persisted = {}
        /\ cm.fx.superblocks = <<>>
        /\ cm.fx.requests = 0

\* C30 witness: a valid block of part 1 was applied before the invalid one
\* was met, and the restored chain state does not have it
C30_Witness ==
    /\ FailsPart1
    /\ SentParts[1][1].valid
    /\ SentParts[1][1].hash \notin cm.fx.indexed
    /\ cm.fx.restored
    /\ cm.sm_state = "WaitingConsensus"

\* ========================================================================
\* The target superblock (checked under SpecAddBlocks)
\* ========================================================================
\* the target superblock was constructed and its hash is the one of the target
SuperblockMatch ==
    /\ TargetReached
    /\ FoundTarget.superblock.checkpoint # Found.superblock_state.checkpoint
    /\ call.msg.hash1 = FoundTarget.superblock.hash_prev_block

\* the beacon of the superblock constructed for the target
ConstructedTarget == CheckpointBeacon(FoundTarget.superblock.checkpoint, call.msg.hash1)

\* the tip once part 1 has been applied
TipAfterPart1 ==
    IF SentParts[1] = <<>> THEN Found.chain_state.highest_block_checkpoint
    ELSE CheckpointBeacon(SentParts[1][Len(SentParts[1])].checkpoint,
                          SentParts[1][Len(SentParts[1])].hash)

PartHashes(part) == {part[i].hash : i \in 1..Len(part)}

\* C31: when the superblock constructed for the target has a hash other
\* than the target's hash_prev_block, the state becomes WaitingConsensus,
\* the chain state is restored from storage, the stored snapshot is not
\* overwritten and no block of part 2 or 3 is processed; when the hashes
\* are equal, the highest superblock beacon is the constructed one and the
\* chain state is persisted before part 2 is processed.
C31_TargetSuperblock ==
    /\ SuperblockMismatch =>
          /\ cm.sm_state = "WaitingConsensus"
          /\ cm.fx.restored
          /\ cm.storage = Found.storage
          /\ cm.chain_state = Found.storage
          /\ cm.fx.indexed = {}
    /\ SuperblockMatch =>
          /\ cm.storage.highest_superblock_checkpoint = ConstructedTarget
          /\ cm.chain_state.highest_superblock_checkpoint = ConstructedTarget
          /\ cm.storage.highest_block_checkpoint = TipAfterPart1
          /\ cm.fx.snapshot = PartHashes(SentParts[1])

\* C31 witness: the superblock matched after a block of part 1, and part 2
\* went on from the persisted state
C31_Witness ==
    /\ SuperblockMatch
    /\ SentParts[1] # <<>>
    /\ Unwrap(SentParts[2]) # <<>>
    /\ ~HasInvalid(Unwrap(SentParts[2]))
    /\ cm.storage.highest_superblock_checkpoint = ConstructedTarget
    /\ get_chain_beacon(cm) # cm.storage.highest_block_checkpoint

\* the mismatch after a block of part 1 was applied
C31_WitnessMismatch ==
    /\ SuperblockMismatch
    /\ SentParts[1] # <<>>
    /\ cm.fx.restored

\* ========================================================================
\* A batch that does not reach the target (checked under SpecAddBlocks)
\* ========================================================================
\* part 1 was processed successfully and there is no part 2
TargetNotReached ==
    /\ SyncingAddBlocks
    /\ IsSome(Found.sync_target)
    /\ call.msg.blocks # <<>>
    /\ ~HasInvalid(SentParts[1])
    /\ IsNone(SentParts[2])

InSync(state) == state = "AlmostSynced" \/ state = "Synced"

SecondSuperblockDue ==
    /\ TargetReached
    /\ ~SuperblockMismatch
    /\ ~HasInvalid(Unwrap(SentParts[2]))
    /\ IsSome(SentParts[5])

\* the epoch the last superblock of the handling was constructed for
SecondSuperblockEpoch == cm.fx.superblocks[Len(cm.fx.superblocks)]

\* C34: when part 2 is processed successfully and a next superblock index
\* exists, the second superblock constructed during synchronization is
\* superblock target+1: it is constructed for epoch
\* (target checkpoint + 1) * superblock_period, after part 2 has been
\* handed to storage.
C34_SecondSuperblockIsNext ==
    SecondSuperblockDue =>
        /\ cm.fx.superblocks # <<>>
        /\ SecondSuperblockEpoch = (FoundTarget.superblock.checkpoint + 1) * superblock_period
        /\ PartHashes(Unwrap(SentParts[2])) \subseteq cm.fx.persisted

\* what the handler does: the index is the one of the current epoch
C34_SecondSuperblockIsCurrent ==
    SecondSuperblockDue =>
        /\ cm.fx.superblocks # <<>>
        /\ SecondSuperblockEpoch =
               (Unwrap(Found.current_epoch) \div superblock_period) * superblock_period
        /\ PartHashes(Unwrap(SentParts[2])) \subseteq cm.fx.persisted

\* the node is two superblocks behind the current epoch
C34_TwoBehind ==
    /\ SecondSuperblockDue
    /\ Unwrap(Found.current_epoch) \div superblock_period
           > FoundTarget.superblock.checkpoint + 1

\* ========================================================================
\* The tie among the block beacons (checked under SpecConsensus)
\* ========================================================================
\* the slots of the vote: the outbound limit, or the peers of the snapshot
VoteSlots(msg) ==
    IF IsSome(msg.outbound_limit) THEN Unwrap(msg.outbound_limit) ELSE Len(msg.pb)

\* the superblock beacons that win the padded vote
SuperWinners(msg, threshold) ==
    {sb \in AllSuperBeacons :
        /\ \A o \in AllSuperBeacons \ {sb} :
               Cardinality(ReportsSuper(msg, o)) < Cardinality(ReportsSuper(msg, sb))
        /\ SilentSlots(msg, VoteSlots(msg)) < Cardinality(ReportsSuper(msg, sb))
        /\ Cardinality(ReportsSuper(msg, sb)) * 100 >= threshold * VoteSlots(msg)}

\* the peers that vote for sb and report the block beacon b
VotersFor(msg, sb, b) == ReportsSuper(msg, sb) \cap ReportsBlock(msg, b)

\* two block beacons share the top among the peers that vote for sb
TopTie(msg, sb) ==
    \E b1, b2 \in AllBlockBeacons :
        /\ b1 # b2
        /\ Cardinality(VotersFor(msg, sb, b1)) = Cardinality(VotersFor(msg, sb, b2))
        /\ \A o \in AllBlockBeacons :
               Cardinality(VotersFor(msg, sb, o)) <= Cardinality(VotersFor(msg, sb, b1))

FirstVoter(msg, sb) ==
    CHOOSE i \in ReportsSuper(msg, sb) : \A j \in ReportsSuper(msg, sb) : i <= j

EdgeOfPart2Evaluated ==
    /\ PositionFrom(call.blocks, FirstEpoch(2)) = 0
    /\ call.blocks # <<>>

\* C36: for every sorted batch, part 2 is Some iff the batch has a block
\* with epoch >= target * period - 1 (for target 0: iff the batch is not
\* empty); if part 4 is Some then part 3 is Some, and if part 3 is Some
\* then part 2 is Some; and target * period - 1 is not computed when
\* target * period is 0.
C36_PartsPresent ==
    Split =>
        /\ IsSome(call.ret[2]) <=>
               \E e \in EpochsOf(call.blocks) : e + 1 >= FirstEpoch(2)
        /\ FirstEpoch(2) = 0 => (IsSome(call.ret[2]) <=> call.blocks # <<>>)
        /\ IsSome(call.ret[4]) => IsSome(call.ret[3])
        /\ IsSome(call.ret[3]) => IsSome(call.ret[2])
        /\ EdgeOfPart2Evaluated => FirstEpoch(2) >= 1

\* C36 witness: the batch ends right before the first epoch of part 2, the
\* subtraction is evaluated and part 2 is Some of the empty list
C36_Witness ==
    /\ Split
    /\ EdgeOfPart2Evaluated
    /\ call.ret[2] = Some(<<>>)
    /\ IsNone(call.ret[3])
    /\ Len(call.ret[1]) >= 2

\* the target is superblock 0 and the batch is not empty
C36_WitnessAtZero ==
    /\ Split
    /\ FirstEpoch(2) = 0
    /\ call.blocks # <<>>
    /\ call.ret[1] = <<>>
    /\ IsSome(call.ret[2])

\* ========================================================================
\* The start of the wait after a batch (checked under SpecAddBlocks)
\* ========================================================================
\* C37: after an AddBlocks handling has completed, the deferred stages for
\* parts 2 and 3 included, if the state is not Synchronizing then
\* sync_waiting_for_add_blocks_since is None.
C37_WaitForgotten ==
    (call.op = "AddBlocks" /\ cm.sm_state # "Synchronizing") =>
        IsNone(cm.sync_waiting_for_add_blocks_since)

\* the start of the wait outlives a batch whose deferred stages succeed
C37_KeptAfterSuccess ==
    /\ BatchSucceeded /\ TargetReached
    /\ cm.sm_state = "WaitingConsensus"
    /\ IsSome(cm.sync_waiting_for_add_blocks_since)

\* the start of the wait outlives a batch whose part 2 fails
C37_KeptAfterPart2Failure ==
    /\ FailsPart2
    /\ cm.sm_state = "WaitingConsensus"
    /\ IsSome(cm.sync_waiting_for_add_blocks_since)

\* ========================================================================
\* The first block of a batch (checked under SpecAddBlocks)
\* ========================================================================
\* a batch with at least one block, handled in Synchronizing with a target
SyncingBatch ==
    /\ SyncingAddBlocks
    /\ IsSome(Found.sync_target)
    /\ call.msg.blocks # <<>>

\* C38: in Synchronizing with a sync target, the first block of every
\* non-empty AddBlocks batch is removed before the batch is split and is
\* never processed; a batch of exactly one block is handled as a batch that
\* has not reached the target (part 2 None, next batch requested, state
\* stays Synchronizing) and not as an empty batch.
C38_FirstBlockRemoved ==
    SyncingBatch =>
        /\ call.msg.blocks[1].hash \notin cm.fx.indexed
        /\ call.msg.blocks[1].hash \notin cm.fx.persisted
        /\ Len(call.msg.blocks) = 1 =>
              /\ IsNone(SentParts[2])
              /\ cm.fx.requests = 1
              /\ cm.sm_state = "Synchronizing"
              /\ ~cm.fx.restored
              /\ cm.chain_state = Found.chain_state

\* C38 witness: the only block of the batch is invalid and the next batch
\* is requested
C38_Witness ==
    /\ SyncingBatch
    /\ Len(call.msg.blocks) = 1
    /\ ~call.msg.blocks[1].valid
    /\ cm.fx.requests = 1
    /\ cm.sm_state = "Synchronizing"

ChainNotReadyTick ==
    /\ call.op = "EpochNotification"
    /\ ~call.msg.ready
    /\ InSync(cm.sm_state)

C40_ChainNotReadyAborts ==
    ChainNotReadyTick =>
        /\ cm.best_candidate = Unwrap(call.prev).best_candidate
        /\ IsNone(cm.fx.consolidated)
        /\ cm.fx.persisted = {}
        /\ cm.chain_state = Unwrap(call.prev).chain_state
        /\ cm.fx.broadcast_inbound = 0
        /\ ~cm.fx.mining
        /\ cm.sm_state = call.before

\* a tick without the contexts found a best candidate and left it in place
C40_Witness ==
    /\ ChainNotReadyTick
    /\ IsSome(Unwrap(call.prev).best_candidate)
    /\ IsSome(cm.best_candidate)

====
